---------------------------- MODULE Spec2Model ----------------------------
(***************************************************************************)
(* A model of the RAG pipeline of lucavb/rag-poc: the text chunker of the  *)
(* EmbeddingService (chunkArticle / splitText), the ingestion run          *)
(* (processArticles), the file-backed VectorStoreService and the reindex   *)
(* handler of the CLI.                                                      *)
(*                                                                          *)
(* The chunker looks at a text only through its length and through the     *)
(* class of each character: whitespace (matched by \s), sentence ender     *)
(* (. ! ?) or any other character. A text is therefore the record          *)
(*     [len, spaces, enders]                                                *)
(* of its length, the positions holding whitespace and the positions       *)
(* holding a sentence ender. Positions are 0-based as in the source.       *)
(***************************************************************************)
EXTENDS Integers, Sequences, FiniteSets, TLC

VARIABLES
    body,        \* article.body handed to chunkArticle
    options,     \* ChunkingOptions: size, overlap, preserveWords, preserveSentences
    cpc,         \* position in chunkArticle/splitText: call, split, after, done, failed (unused: no call traced)
    content,     \* chunkArticle's local content (body, truncated when too large)
    start,       \* splitText: let start
    iterations,  \* splitText: let iterations
    end,         \* splitText: end of the window of the last iteration (-1: none yet)
    chunks,      \* splitText: const chunks, as character ranges <<start, end>>
    result,      \* chunkArticle's return value: a sequence of ArticleChunk
    error,       \* the error chunkArticle threw ("none" when it returned)
    isLoaded,    \* VectorStoreService.isLoaded
    vectorStore, \* VectorStoreService.vectorStore: articles, chunks, embeddings, metadata
    file,        \* the store file at filePath: absent, corrupt, or a JSON document
    call,        \* the last call on the store: op, args, whether it threw, needsReindexing's diff
    search,      \* the arguments and the result of the search call, when call.op = "search"
    faultsLeft,  \* faults (file system, embedding backend) the environment may still inject
    ingest,      \* the last run of EmbeddingService.processArticles: input, environment, outcome
    retry,       \* the last call made through a client's retryRequest: responses, attempts, sleeps, outcome
    limiter,     \* a client's rateLimitState, the clock (ms), and the last call on it: op, now, asked, slept
    session,     \* ChatService: currentSession.messages, the history file, and the last call
    pages        \* ZendeskOAuthClient.fetchAllArticles: its position, page, the pages requested, the articles

chunkerVars == <<body, options, cpc, content, start, iterations, end, chunks, result, error>>

storeVars == <<isLoaded, vectorStore, file, call, search, faultsLeft>>

clientVars == <<ingest, retry, limiter, session, pages>>

vars == <<body, options, cpc, content, start, iterations, end, chunks, result, error,
          isLoaded, vectorStore, file, call, search, faultsLeft, ingest, retry, limiter,
          session, pages>>

--------------------------------------------------------------------------
(* Bounds of the model. *)

MaxBodyLen == 6

MaxSize == 5

(* Program constants. *)

MaxContentLength == 10485760

SafetyMargin == 100

DefaultChunkSize == 1000

DefaultChunkOverlap == 200

(* The body length of the 2500-character scenario; the bodies of that
   scenario are words of 1..MaxWordLen characters, or hold one whitespace. *)
ScenarioBodyLen == 2500

MaxWordLen == 12

MaxSpots == 25

(* Similarities are fixed-point numbers: SimScale stands for 1.0. *)
SimScale == 100

(* The largest squared norm of a vector of the model. *)
NormLimit == 64

(* Time is counted in hours: the length of a day (1000 * 60 * 60 * 24 ms). *)
DayLength == 24

DaysPerYear == 365

(* The number of file-system faults injected in one behaviour. *)
MaxFaults == 1

(* The number of embedding calls that fail in one ingestion run. *)
MaxEmbedFailures == 1

MaxResults == 2

Chars == {"a", " ", "."}

Max(S) == CHOOSE x \in S : \A y \in S : y <= x

Min(S) == CHOOSE x \in S : \A y \in S : x <= y

CeilDiv(a, b) == (a + b - 1) \div b

BoundedSeq(S, n) == UNION {[1..k -> S] : k \in 0..n}

--------------------------------------------------------------------------
(* Texts and the string helpers of the JavaScript runtime. *)

EmptyText == [len |-> 0, spaces |-> {}, enders |-> {}]

\* The text spelt by a sequence of characters: " " whitespace, "." a sentence
\* ender, anything else an ordinary character.
TextOf(seq) ==
    [len |-> Len(seq),
     spaces |-> {i - 1 : i \in {j \in 1..Len(seq) : seq[j] = " "}},
     enders |-> {i - 1 : i \in {j \in 1..Len(seq) : seq[j] = "."}}]

IsSpaceAt(text, i) == i \in text.spaces

\* text.slice(from, to) for 0 <= from: the characters at positions from..to-1,
\* to clamped to the length.
Slice(text, from, to) ==
    LET hi == IF to > text.len THEN text.len ELSE to
    IN  IF from >= hi
        THEN EmptyText
        ELSE [len |-> hi - from,
              spaces |-> {p - from : p \in {q \in text.spaces : from <= q /\ q < hi}},
              enders |-> {p - from : p \in {q \in text.enders : from <= q /\ q < hi}}]

\* text.substring(0, n) for 0 <= n.
Substring0(text, n) == Slice(text, 0, n)

\* String concatenation.
Concat(t, u) ==
    [len |-> t.len + u.len,
     spaces |-> t.spaces \cup {p + t.len : p \in u.spaces},
     enders |-> t.enders \cup {p + t.len : p \in u.enders}]

\* String.prototype.trim: drop the leading and the trailing whitespace. The
\* first and the last position not holding whitespace border the result.
Trim(text) ==
    IF Cardinality(text.spaces) = text.len
    THEN EmptyText
    ELSE LET first == Min(({0} \cup {p + 1 : p \in text.spaces}) \ text.spaces)
             last == Max(({text.len - 1} \cup {p - 1 : p \in text.spaces}) \ text.spaces)
         IN  Slice(text, first, last + 1)

\* "\n\n[Content truncated due to size]".
TruncationNote == [len |-> 33, spaces |-> {0, 1, 10, 20, 24, 27}, enders |-> {}]

--------------------------------------------------------------------------
(* EmbeddingService.findWordEnd: scanning back from targetPos to minPos + 1,
   the first position holding whitespace; targetPos when there is none. *)
findWordEnd(text, targetPos, minPos) ==
    LET hits == {i \in text.spaces : minPos < i /\ i <= targetPos}
    IN  IF hits = {} THEN targetPos ELSE Max(hits)

(* EmbeddingService.findSentenceEnd: the regular expression /[.!?]\s/g run from
   lastIndex = minPos; lastEnd is match.index + 1 of the last match whose index
   is not beyond targetPos. *)
findSentenceEnd(text, targetPos, minPos) ==
    LET matches == {m \in text.enders :
                        minPos <= m /\ m <= targetPos /\ (m + 1) \in text.spaces}
        lastEnd == IF matches = {} THEN -1 ELSE Max(matches) + 1
    IN  IF lastEnd > minPos THEN lastEnd ELSE targetPos

(* splitText, lines 477-494: the end of the window that starts at s. *)
windowEnd(text, opts, s) ==
    LET e == s + opts.size
    IN  IF e < text.len
        THEN IF opts.preserveSentences
             THEN LET sentenceEnd == findSentenceEnd(text, e, s)
                  IN  IF sentenceEnd > s THEN sentenceEnd ELSE e
             ELSE IF opts.preserveWords
                  THEN LET wordEnd == findWordEnd(text, e, s)
                       IN  IF wordEnd > s THEN wordEnd ELSE e
                  ELSE e
        ELSE e

(* splitText, lines 502-510 with the forced progress dropped: the next start
   is end - overlap whatever it is. *)
nextStartNoForcedProgress(opts, s, e) == e - opts.overlap

(* splitText, lines 502-510: the next start position. *)
nextStart(opts, s, e) ==
    LET newStart == e - opts.overlap
        half == opts.size \div 2
    IN  IF newStart <= s
        THEN s + (IF half > 1 THEN half ELSE 1)
        ELSE newStart

(* splitText, line 455. *)
maxIterations(text, opts) ==
    LET stride == opts.size - opts.overlap
    IN  CeilDiv(text.len, IF stride > 1 THEN stride ELSE 1) + SafetyMargin

(* splitText, lines 496-499: the chunk list after pushing the window s..e. *)
pushChunk(text, cs, s, e) ==
    IF Trim(Slice(text, s, e)).len > 0 THEN Append(cs, <<s, e>>) ELSE cs

(* chunkArticle, lines 431-443: the ArticleChunk fields that depend on the
   text, for the chunk texts in order. *)
toChunks(texts) ==
    [i \in 1..Len(texts) |->
        [content |-> Trim(texts[i]), chunkIndex |-> i - 1, totalChunks |-> Len(texts)]]

(* chunkArticle, lines 402-417 without the trim: the single chunk holds the
   content as it is. *)
singleChunkUntrimmed(text) ==
    <<[content |-> text, chunkIndex |-> 0, totalChunks |-> 1]>>

(* chunkArticle, lines 402-417: the single chunk of a content that fits. *)
singleChunk(text) ==
    <<[content |-> Trim(text), chunkIndex |-> 0, totalChunks |-> 1]>>

(* chunkArticle, lines 393-400: content beyond the ceiling is cut and flagged. *)
truncate(text) ==
    IF text.len > MaxContentLength
    THEN Concat(Substring0(text, MaxContentLength), TruncationNote)
    ELSE text

(* splitText, line 524: the texts of the chunks kept, in order. *)
chunkTexts(text, cs) ==
    LET kept == SelectSeq(cs, LAMBDA r : Trim(Slice(text, r[1], r[2])).len > 0)
    IN  [i \in 1..Len(kept) |-> Slice(text, kept[i][1], kept[i][2])]

--------------------------------------------------------------------------
(* chunkArticle as a function, for the ingestion run: the loop of splitText
   run to its end from start s with it iterations done and the chunks cs. *)
RECURSIVE splitLoop(_, _, _, _, _)
splitLoop(text, opts, s, it, cs) ==
    IF s < text.len /\ it < maxIterations(text, opts)
    THEN LET e == windowEnd(text, opts, s)
             cs2 == pushChunk(text, cs, s, e)
             s2 == nextStart(opts, s, e)
         IN  IF s2 >= text.len
             THEN [iterations |-> it + 1, chunks |-> cs2]
             ELSE splitLoop(text, opts, s2, it + 1, cs2)
    ELSE [iterations |-> it, chunks |-> cs]

(* splitText, lines 518-524: what it does after the loop ended as run. *)
splitResult(text, opts, run) ==
    IF run.iterations >= maxIterations(text, opts)
    THEN [error |-> "ChunkingOverflow", texts |-> <<>>]
    ELSE [error |-> "none", texts |-> chunkTexts(text, run.chunks)]

(* splitText: the error it throws, or "none" and the chunk texts. *)
splitText(text, opts) ==
    IF opts.size <= 0
    THEN [error |-> "InvalidChunkSize", texts |-> <<>>]
    ELSE IF opts.overlap < 0 \/ opts.overlap >= opts.size
    THEN [error |-> "InvalidOverlap", texts |-> <<>>]
    ELSE splitResult(text, opts, splitLoop(text, opts, 0, 0, <<>>))

(* The identifiers `article_${id}_chunk_${index}` and `${chunk.id}_embedding`. *)
ChunkId(articleId, index) == <<articleId, index>>

EmbeddingId(chunkId) == <<chunkId[1], chunkId[2], "embedding">>

(* chunkArticle, lines 404-415 and 431-443: the ArticleChunk records of the
   article for the chunks cs (title, url and createdAt, copied from the
   article, are left out). *)
stamp(article, cs) ==
    [i \in 1..Len(cs) |->
        [id |-> ChunkId(article.id, cs[i].chunkIndex),
         articleId |-> article.id,
         content |-> cs[i].content,
         chunkIndex |-> cs[i].chunkIndex,
         totalChunks |-> cs[i].totalChunks,
         updatedAt |-> article.updated_at]]

(* chunkArticle, lines 426-445, on the outcome of splitText. *)
chunkSplit(article, split) ==
    [error |-> split.error, chunks |-> stamp(article, toChunks(split.texts))]

(* chunkArticle, lines 402-445, on the content after truncation. *)
chunkContent(article, text, opts) ==
    IF text.len <= opts.size
    THEN [error |-> "none", chunks |-> stamp(article, singleChunk(text))]
    ELSE chunkSplit(article, splitText(text, opts))

(* chunkArticle: the error it throws, or "none" and the ArticleChunk records. *)
chunkArticle(article, opts) ==
    IF article.body.len = 0
    THEN [error |-> "InvalidContent", chunks |-> <<>>]
    ELSE chunkContent(article, truncate(article.body), opts)

(* The vector the embedding backend returns for a chunk: a stand-in that
   depends on the chunk's content alone. The empty content gets the zero
   vector. *)
embedText(text) == <<text.len, Cardinality(text.spaces) + Cardinality(text.enders)>>

(* createEmbeddingBatch / createEmbeddingForChunk: the Embedding of a chunk
   (model and createdAt are left out). *)
embeddingOf(chunk) ==
    [id |-> EmbeddingId(chunk.id), articleChunkId |-> chunk.id, vector |-> embedText(chunk.content)]

(* processArticles, lines 82-121: the chunks of the articles whose chunking
   succeeded, in input order. *)
chunksOf(article, r) == IF r.error = "none" THEN r.chunks ELSE <<>>

RECURSIVE processChunks(_, _)
processChunks(articles, opts) ==
    IF articles = <<>>
    THEN <<>>
    ELSE chunksOf(Head(articles), chunkArticle(Head(articles), opts))
            \o processChunks(Tail(articles), opts)

(* createEmbeddingsForChunks: the embeddings of those chunks whose embedding
   call succeeded; failed is the set of chunk ids whose calls all failed. *)
RECURSIVE createEmbeddingsForChunks(_, _)
createEmbeddingsForChunks(cs, failed) ==
    IF cs = <<>>
    THEN <<>>
    ELSE (IF Head(cs).id \in failed THEN <<>> ELSE <<embeddingOf(Head(cs))>>)
            \o createEmbeddingsForChunks(Tail(cs), failed)

(* processArticles, lines 123-156, on the chunks made. *)
embedChunks(cs, failed) ==
    [chunks |-> cs, embeddings |-> createEmbeddingsForChunks(cs, failed)]

(* processArticles: the chunks and the embeddings it returns. *)
processArticles(articles, opts, failed) == embedChunks(processChunks(articles, opts), failed)

--------------------------------------------------------------------------
(* A run of processArticles in detail: the race of each chunking against its
   timer, the embedding calls batch by batch, and the single calls after a
   failed batch. The environment env of a run names the articles whose
   chunking is slow (slow), the chunks that make a batch call fail after its
   retries (failedBatches) and the chunks whose single call fails after its
   retries (failedSingles). *)

(* const batchSize = 5, line 163. *)
BatchSize == 5

(* setTimeout(..., 30000), line 96, in seconds. *)
ChunkingTimeout == 30

(* How long a chunking runs, in seconds: a quick one and a slow one. *)
FastChunking == 1

SlowChunking == 40

chunkingDuration(article, env) ==
    IF article.id \in env.slow THEN SlowChunking ELSE FastChunking

(* Lines 86-97: the executor of chunkingPromise runs chunkArticle to its end,
   synchronously, and only then line 95 creates the timer: the timer starts
   when the chunking has ended. *)
timerStartedAt(duration) == duration

(* Promise.race, line 99: the promise that settles first wins; chunkingPromise
   settles when chunkArticle ends, timeoutPromise when the timer fires. *)
raceWinner(duration) ==
    IF duration <= timerStartedAt(duration) + ChunkingTimeout THEN "chunking" ELSE "timeout"

(* Lines 84-105: what the race hands over for the outcome r of chunkArticle. *)
raced(r, winner) ==
    IF winner = "timeout" THEN [error |-> "ChunkingTimeout", chunks |-> <<>>] ELSE r

chunkingOutcome(article, opts, env) ==
    raced(chunkArticle(article, opts), raceWinner(chunkingDuration(article, env)))

(* One call of the embedding backend made through retryRequest: kind batch or
   single, the chunk ids sent, and whether it succeeded in the end. *)
BackendCall(kind, cs, ok) ==
    [kind |-> kind, ids |-> [i \in 1..Len(cs) |-> cs[i].id], ok |-> ok]

embeddingsOf(cs) == [i \in 1..Len(cs) |-> embeddingOf(cs[i])]

(* Single calls that stop at the first chunk whose call fails. *)
RECURSIVE embedSinglesUntilFailure(_, _)
embedSinglesUntilFailure(batch, env) ==
    IF batch = <<>>
    THEN [embeddings |-> <<>>, calls |-> <<>>]
    ELSE IF Head(batch).id \in env.failedSingles
         THEN [embeddings |-> <<>>, calls |-> <<BackendCall("single", <<Head(batch)>>, FALSE)>>]
         ELSE [embeddings |->
                   <<embeddingOf(Head(batch))>>
                       \o embedSinglesUntilFailure(Tail(batch), env).embeddings,
               calls |->
                   <<BackendCall("single", <<Head(batch)>>, TRUE)>>
                       \o embedSinglesUntilFailure(Tail(batch), env).calls]

(* Lines 197-206: the chunks of a failed batch, one call each; a chunk whose
   call fails is logged and left out. *)
RECURSIVE embedSingles(_, _)
embedSingles(batch, env) ==
    IF batch = <<>>
    THEN [embeddings |-> <<>>, calls |-> <<>>]
    ELSE [embeddings |->
              (IF Head(batch).id \in env.failedSingles
               THEN <<>> ELSE <<embeddingOf(Head(batch))>>)
                  \o embedSingles(Tail(batch), env).embeddings,
          calls |->
              <<BackendCall("single", <<Head(batch)>>, Head(batch).id \notin env.failedSingles)>>
                  \o embedSingles(Tail(batch), env).calls]

(* Lines 175-207: one batch; the single calls follow when the batch call
   failed. *)
embedBatch(batch, env) ==
    IF \A i \in 1..Len(batch) : batch[i].id \notin env.failedBatches
    THEN [embeddings |-> embeddingsOf(batch), calls |-> <<BackendCall("batch", batch, TRUE)>>]
    ELSE [embeddings |-> embedSingles(batch, env).embeddings,
          calls |-> <<BackendCall("batch", batch, FALSE)>> \o embedSingles(batch, env).calls]

(* createEmbeddingsForChunks, lines 161-211: the batches of batchSize chunks in
   order; the embeddings it returns and the backend calls it made. *)
RECURSIVE createEmbeddingsInBatches(_, _)
createEmbeddingsInBatches(cs, env) ==
    IF cs = <<>>
    THEN [embeddings |-> <<>>, calls |-> <<>>]
    ELSE [embeddings |->
              embedBatch(SubSeq(cs, 1, Min({BatchSize, Len(cs)})), env).embeddings
                  \o createEmbeddingsInBatches(SubSeq(cs, BatchSize + 1, Len(cs)), env).embeddings,
          calls |->
              embedBatch(SubSeq(cs, 1, Min({BatchSize, Len(cs)})), env).calls
                  \o createEmbeddingsInBatches(SubSeq(cs, BatchSize + 1, Len(cs)), env).calls]

(* An article that contributes its chunks only when each got its embedding. *)
embeddedAllOrNothing(cs, made) ==
    [chunks |-> IF Len(made.embeddings) = Len(cs) THEN cs ELSE <<>>,
     embeddings |-> made.embeddings, calls |-> made.calls, threw |-> FALSE]

(* Lines 107-121: the chunks are pushed, then the embeddings made for them. *)
embedded(cs, made) ==
    [chunks |-> cs, embeddings |-> made.embeddings, calls |-> made.calls, threw |-> FALSE]

(* A chunking error that leaves the loop instead of being caught. *)
contributionRethrowing(r, env) ==
    IF r.error # "none"
    THEN [chunks |-> <<>>, embeddings |-> <<>>, calls |-> <<>>, threw |-> TRUE]
    ELSE embedded(r.chunks, createEmbeddingsInBatches(r.chunks, env))

(* Lines 78-121: what one article contributes, given the outcome r of its
   chunking; the catch at 101-105 logs a chunking error and goes on. *)
contribution(r, env) ==
    IF r.error # "none"
    THEN [chunks |-> <<>>, embeddings |-> <<>>, calls |-> <<>>, threw |-> FALSE]
    ELSE embedded(r.chunks, createEmbeddingsInBatches(r.chunks, env))

(* Lines 59-150, one pass of the loop over the article a. *)
visit(acc, a, c) ==
    [visited |-> Append(acc.visited, a.id),
     chunks |-> acc.chunks \o c.chunks,
     embeddings |-> acc.embeddings \o c.embeddings,
     calls |-> acc.calls \o c.calls,
     threw |-> c.threw]

(* Lines 56-155: the loop over the articles in input order; an error that
   leaves a pass ends the run. *)
RECURSIVE processLoop(_, _, _, _)
processLoop(articles, opts, env, acc) ==
    IF articles = <<>> \/ acc.threw
    THEN acc
    ELSE processLoop(Tail(articles), opts, env,
                     visit(acc, Head(articles),
                           contribution(chunkingOutcome(Head(articles), opts, env), env)))

(* processArticles in detail: the articles visited, the chunks and embeddings
   returned, the backend calls made, and whether the run threw. *)
processArticlesRun(articles, opts, env) ==
    processLoop(articles, opts, env,
                [visited |-> <<>>, chunks |-> <<>>, embeddings |-> <<>>, calls |-> <<>>,
                 threw |-> FALSE])

--------------------------------------------------------------------------
(* The backend calls of the three clients: the embedding client
   (EmbeddingService), the document-source client (ZendeskOAuthClient) and the
   generation client (ChatService), each with its own retryRequest. *)

Clients == {"embedding", "zendesk", "chat"}

(* What the backend does with one request: it answers 200, it answers with
   an error status, it does not answer within timeoutMs, or the connection
   fails. *)
Ok == [kind |-> "ok", status |-> 200]

Http(status) == [kind |-> "http", status |-> status]

TimedOut == [kind |-> "timeout", status |-> 0]

NetworkFailure == [kind |-> "network", status |-> 0]

Responses == {Ok, Http(404), Http(429), Http(500), TimedOut, NetworkFailure}

(* The error the operation throws for a response that is not a success; status
   is the error object's status property, 0 when it has none. The embedding
   and the document-source client throw new Error(`... (${response.status}):
   ...`), part_000:341 and zendesk-oauth.ts:217, and a new Error for a timeout
   (part_000:357, zendesk-oauth.ts:237): the status is in the message alone.
   The generation client hands on the error of the OpenAI library, whose API
   errors carry the HTTP status as status. *)
thrown(client, response) ==
    [message |-> response,
     status |-> IF client = "chat" /\ response.kind = "http" THEN response.status ELSE 0]

(* parseError, part_001:67-79: message and, where the error has one, status. *)
parseError(err) == [message |-> err.message, status |-> err.status]

(* this.retryOptions: part_000:38-43, zendesk-oauth.ts:41-46 and 863-868. *)
retryOptions(client) ==
    [maxRetries |-> 3, baseDelay |-> 1000, backoffFactor |-> 2,
     maxDelay |-> IF client = "zendesk" THEN 10000 ELSE 30000]

(* Lines 639-642: the backoff delay after the failed attempt. *)
backoff(opts, attempt) ==
    Min({opts.baseDelay * opts.backoffFactor ^ attempt, opts.maxDelay})

(* Lines 629-636: a client error other than 429 ends the loop. *)
notRetried(err) ==
    err.status # 0 /\ err.status >= 400 /\ err.status < 500 /\ err.status # 429

(* The end of retryRequest: return of the operation's value, line 619, or
   throw lastError, line 649. *)
returnedAfter(attempts, sleeps) ==
    [attempts |-> attempts, sleeps |-> sleeps, returned |-> TRUE, raised |-> {}]

raisedAfter(attempts, sleeps, err) ==
    [attempts |-> attempts, sleeps |-> sleeps, returned |-> FALSE, raised |-> {err}]

(* The loop with one attempt fewer: attempt < maxRetries. *)
RECURSIVE retryLoopOneFewer(_, _, _, _, _)
retryLoopOneFewer(opts, client, responses, attempt, sleeps) ==
    IF responses[attempt + 1].kind = "ok"
    THEN returnedAfter(attempt + 1, sleeps)
    ELSE IF attempt = opts.maxRetries - 1
               \/ notRetried(parseError(thrown(client, responses[attempt + 1])))
         THEN raisedAfter(attempt + 1, sleeps,
                          parseError(thrown(client, responses[attempt + 1])))
         ELSE retryLoopOneFewer(opts, client, responses, attempt + 1,
                                Append(sleeps, backoff(opts, attempt)))

(* retryRequest, lines 614-650 (zendesk-oauth.ts:281-312, 1219-1250), from the
   attempt numbered attempt on; responses[k] is what the backend does with the
   k-th request. *)
RECURSIVE retryLoop(_, _, _, _, _)
retryLoop(opts, client, responses, attempt, sleeps) ==
    IF responses[attempt + 1].kind = "ok"
    THEN returnedAfter(attempt + 1, sleeps)
    ELSE IF attempt = opts.maxRetries
               \/ notRetried(parseError(thrown(client, responses[attempt + 1])))
         THEN raisedAfter(attempt + 1, sleeps,
                          parseError(thrown(client, responses[attempt + 1])))
         ELSE retryLoop(opts, client, responses, attempt + 1,
                        Append(sleeps, backoff(opts, attempt)))

retryRequest(client, responses) == retryLoop(retryOptions(client), client, responses, 0, <<>>)

(* fetchArticle, zendesk-oauth.ts:108-125, on the outcome r of its retryRequest:
   the article, null when the error caught has status 404, or the error. *)
fetchArticle(r) ==
    IF r.returned
    THEN [returned |-> TRUE, value |-> {"article"}, raised |-> {}]
    ELSE IF \E e \in r.raised : parseError(e).status = 404
         THEN [returned |-> TRUE, value |-> {"null"}, raised |-> {}]
         ELSE [returned |-> FALSE, value |-> {}, raised |-> r.raised]

--------------------------------------------------------------------------
(* The rate limiter of the embedding client: enforceRateLimit, lines 563-609.
   Times are in milliseconds. *)

(* 60 * 1000, line 565. *)
Window == 60000

(* const requestLimit = 100, line 573. *)
RequestLimit == 100

(* 10 * 1000, line 577. *)
RequestWaitCap == 10000

(* const tokenLimit = 50000, line 589. *)
TokenLimit == 50000

(* requests * 100, line 590. *)
TokenEstimate == 100

(* 15 * 1000, line 594. *)
TokenWaitCap == 15000

RECURSIVE sumCounts(_)
sumCounts(tokens) ==
    IF tokens = <<>> THEN 0 ELSE Head(tokens).count + sumCounts(Tail(tokens))

(* Lines 576-579 and 593-596: the wait until the oldest of the timestamps
   leaves the window, at most cap; Math.min() of no timestamp is Infinity, and
   the wait is the cap. *)
waitTime(cap, now, timestamps) ==
    IF timestamps = {} THEN cap ELSE Min({cap, Window - (now - Min(timestamps))})

(* Lines 575-585: the pacing sleep for the request ceiling, if any. *)
requestWait(recent, requests, now) ==
    IF Len(recent) + requests > RequestLimit
    THEN <<waitTime(RequestWaitCap, now, {recent[i] : i \in 1..Len(recent)})>>
    ELSE <<>>

(* Lines 588-602: the pacing sleep for the token ceiling, if any. *)
tokenWait(recent, requests, now) ==
    IF sumCounts(recent) + requests * TokenEstimate > TokenLimit
    THEN <<waitTime(TokenWaitCap, now, {recent[i].timestamp : i \in 1..Len(recent)})>>
    ELSE <<>>

RECURSIVE sumOf(_)
sumOf(seq) == IF seq = <<>> THEN 0 ELSE Max({Head(seq), 0}) + sumOf(Tail(seq))

(* A limiter that refuses the request when it would exceed the ceiling. *)
rejecting(recentRequests, recentTokens, requests, now, slept) ==
    IF slept # <<>>
    THEN [client |-> "embedding", requests |-> recentRequests, tokens |-> recentTokens,
          clock |-> now, op |-> "enforceRateLimit", now |-> now,
          asked |-> requests, slept |-> <<>>, returned |-> FALSE, threw |-> TRUE]
    ELSE [client |-> "embedding", requests |-> Append(recentRequests, now),
          tokens |-> recentTokens,
          clock |-> now, op |-> "enforceRateLimit", now |-> now,
          asked |-> requests, slept |-> slept, returned |-> TRUE, threw |-> FALSE]

(* The end of enforceRateLimit at time now: the request recorded with the
   timestamp taken at entry, lines 605-608, after the sleeps slept. *)
paced(recentRequests, recentTokens, requests, now, slept) ==
    [client |-> "embedding", requests |-> Append(recentRequests, now),
     tokens |-> recentTokens,
     clock |-> now + sumOf(slept), op |-> "enforceRateLimit", now |-> now,
     asked |-> requests, slept |-> slept, returned |-> TRUE, threw |-> FALSE]

(* Lines 564-602 on the entries left after the cleaning of lines 568-569. *)
enforceOn(recentRequests, recentTokens, requests, now) ==
    paced(recentRequests, recentTokens, requests, now,
          requestWait(recentRequests, requests, now)
              \o tokenWait(recentTokens, requests, now))

(* enforceRateLimit(requests) entered at time now. *)
enforceRateLimit(state, requests, now) ==
    enforceOn(SelectSeq(state.requests, LAMBDA t : t > now - Window),
              SelectSeq(state.tokens, LAMBDA t : t.timestamp > now - Window),
              requests, now)

(* The rate limiter of the document source: ZendeskOAuthClient.enforceRateLimit,
   zendesk-oauth.ts lines 243-279. *)

(* 60 * 60 * 1000, line 246. *)
Hour == 3600000

(* const requestsPerMinute = 200, line 252. *)
RequestsPerMinute == 200

(* const requestsPerHour = 700, line 253. *)
RequestsPerHour == 700

(* Lines 255-263 and 265-273: the sleep until the oldest of the requests of
   the period leaves it, slept when period requests reach the ceiling and the
   time is positive. *)
periodWait(requests, ceiling, period, now) ==
    IF Len(requests) >= ceiling
          /\ period - (now - Min({requests[i] : i \in 1..Len(requests)})) > 0
    THEN <<period - (now - Min({requests[i] : i \in 1..Len(requests)}))>>
    ELSE <<>>

(* Lines 248-278 on the requests of the last hour and of the last minute. *)
enforceZendeskOn(lastHour, lastMinute, now) ==
    [paced(lastHour, <<>>, 0, now,
           periodWait(lastMinute, RequestsPerMinute, Window, now)
               \o periodWait(lastHour, RequestsPerHour, Hour, now))
        EXCEPT !.client = "zendesk"]

enforceRateLimitZendesk(state, now) ==
    enforceZendeskOn(SelectSeq(state.requests, LAMBDA t : t > now - Hour),
                     SelectSeq(state.requests, LAMBDA t : t > now - Window), now)

(* The rate limiter of the generation backend: ChatService.enforceRateLimit,
   zendesk-oauth.ts lines 1180-1214, with the default chat model gpt-4
   (config.ts line 34). *)

(* Line 1190, chatModel includes 'gpt-4'. *)
ChatRequestLimit == 10000

(* Line 1200, chatModel includes 'gpt-4'. *)
ChatTokenLimit == 300000

(* requests * 1000, line 1201. *)
ChatTokenEstimate == 1000

(* const waitTime = 60 * 1000, lines 1193 and 1204. *)
ChatWait == 60000

(* Lines 1189-1208 on the entries left after the cleaning of lines 1185-1186. *)
enforceChatOn(recentRequests, recentTokens, requests, now) ==
    [paced(recentRequests, recentTokens, requests, now,
           (IF Len(recentRequests) + requests > ChatRequestLimit
            THEN <<ChatWait>> ELSE <<>>)
               \o (IF sumCounts(recentTokens) + requests * ChatTokenEstimate > ChatTokenLimit
                   THEN <<ChatWait>> ELSE <<>>))
        EXCEPT !.client = "chat"]

enforceRateLimitChat(state, requests, now) ==
    enforceChatOn(SelectSeq(state.requests, LAMBDA t : t > now - Window),
                  SelectSeq(state.tokens, LAMBDA t : t.timestamp > now - Window),
                  requests, now)

(* The chat session of the generation client: ChatService, zendesk-oauth.ts
   lines 874-1036 and 1100-1128. A message is its role and its content. *)

(* MAX_CONTEXT_MESSAGES, config.ts line 47. *)
MaxContextMessages == 10

message(role, text) == [role |-> role, content |-> text]

(* startNewSession, lines 874-891: the messages of the new session. *)
startNewSession == <<message("system", "prompt")>>

(* loadOrCreateSession, lines 896-918: the messages of the history file, and
   a new session when there is no file (historyFile is empty). *)
loadOrCreateSession(historyFile) ==
    IF historyFile # <<>> THEN historyFile ELSE startNewSession

(* Array.prototype.slice(0, -1) and slice(-n). *)
withoutLast(seq) == SubSeq(seq, 1, Len(seq) - 1)

lastOf(seq, n) == SubSeq(seq, IF Len(seq) > n THEN Len(seq) - n + 1 ELSE 1, Len(seq))

(* prepareMessagesForApi, lines 1100-1128. *)
prepareMessagesForApi(messages, enhancedMessage) ==
    (IF \E i \in 1..Len(messages) : messages[i].role = "system"
     THEN <<messages[Min({i \in 1..Len(messages) : messages[i].role = "system"})]>>
     ELSE <<>>)
        \o lastOf(withoutLast(SelectSeq(messages, LAMBDA m : m.role # "system")),
                  MaxContextMessages * 2)
        \o <<message("user", enhancedMessage)>>

(* generateResponse, lines 958-1036, on the messages entered with (those of
   the current session, or of loadOrCreateSession); r is the outcome of the
   backend call made through retryRequest, and saveOk whether saveSession
   could write the history file (its errors are logged, lines 941-943). *)
generated(state, entered, pushed, userMessage, r, saveOk) ==
    IF r.returned
    THEN [started |-> TRUE,
          messages |-> Append(pushed, message("assistant", "answer")),
          file |-> IF saveOk THEN Append(pushed, message("assistant", "answer"))
                             ELSE state.file,
          op |-> "generateResponse", before |-> entered,
          request |-> prepareMessagesForApi(pushed, <<"enhanced", userMessage>>),
          threw |-> FALSE]
    ELSE [started |-> TRUE, messages |-> pushed, file |-> state.file,
          op |-> "generateResponse", before |-> entered,
          request |-> prepareMessagesForApi(pushed, <<"enhanced", userMessage>>),
          threw |-> TRUE]

entering(state) ==
    IF state.started THEN state.messages ELSE loadOrCreateSession(state.file)

generateResponse(state, userMessage, r, saveOk) ==
    generated(state, entering(state),
              Append(entering(state), message("user", userMessage)),
              userMessage, r, saveOk)

(* clearHistory, lines 949-953: startNewSession, then saveSession. *)
clearHistory(state, saveOk) ==
    [started |-> TRUE, messages |-> startNewSession,
     file |-> IF saveOk THEN startNewSession ELSE state.file,
     op |-> "clearHistory", before |-> entering(state), request |-> <<>>,
     threw |-> FALSE]

(* The rate limiter of the generation client over a call of generateResponse:
   enforceRateLimit(1) at line 990, the sleeps of retryRequest, and the token
   usage recorded when the backend answered, lines 1003-1006. *)
limitedChat(pacedState, r, count) ==
    [pacedState EXCEPT
        !.clock = @ + sumOf(r.sleeps),
        !.tokens = IF r.returned
                   THEN Append(@, [timestamp |-> pacedState.clock + sumOf(r.sleeps),
                                   count |-> count])
                   ELSE @]

(* fetchAllArticles, zendesk-oauth.ts lines 52-103: the listing of the articles
   page by page. A response is the articles it lists, each with its draft
   flag, and its next_page: "url" for a string, "null" for null, "absent"
   when the response carries no next_page (the schema makes it optional,
   unnamed/part_001 line 44, and the parsed value is then undefined). *)

(* The delay between two pages, line 93. *)
PageDelay == 200

(* Line 87: response.next_page !== null. *)
hasMore(nextPage) == nextPage # "null"

(* One turn of the while loop, lines 59-98, on the outcome r of its
   retryRequest. *)
fetchedPage(state, r, listed, nextPage) ==
    IF r.returned
    THEN [pc |-> IF hasMore(nextPage) THEN "loop" ELSE "done",
          page |-> state.page + 1,
          requested |-> Append(state.requested, state.page),
          last |-> nextPage,
          articles |-> state.articles \o SelectSeq(listed, LAMBDA a : ~a.draft)]
    ELSE [state EXCEPT !.pc = "failed", !.requested = Append(@, state.page)]

(* The rate limiter of the Zendesk client over the requests of one
   retryRequest: makeRequestWithSchema calls enforceRateLimit before each
   request, line 191, and retryRequest sleeps between two requests. *)
RECURSIVE requestsLimited(_, _, _)
requestsLimited(state, r, k) ==
    IF k > r.attempts THEN state
    ELSE requestsLimited(
             [enforceRateLimitZendesk(state, state.clock) EXCEPT
                 !.clock = @ + (IF k <= Len(r.sleeps) THEN r.sleeps[k] ELSE 0)],
             r, k + 1)

(* The limiter after one turn of the loop: its requests, and the delay
   before the next page, lines 90-94. *)
limitedPage(state, r, nextPage) ==
    [requestsLimited(state, r, 1) EXCEPT
        !.clock = @ + (IF r.returned /\ hasMore(nextPage) THEN PageDelay ELSE 0)]

(* The limiter of the client the state belongs to. *)
enforceRateLimitOf(state, requests, now) ==
    CASE state.client = "embedding" -> enforceRateLimit(state, requests, now)
      [] state.client = "zendesk" -> enforceRateLimitZendesk(state, now)
      [] state.client = "chat" -> enforceRateLimitChat(state, requests, now)

(* The arguments the client passes to its limiter: the number of chunks of a
   batch or 1 (part_000 lines 218 and 255), none (zendesk-oauth.ts line 191),
   1 (zendesk-oauth.ts line 990). *)
requestCounts(client) ==
    CASE client = "embedding" -> {1, BatchSize}
      [] client = "zendesk" -> {0}
      [] client = "chat" -> {1}

--------------------------------------------------------------------------
(* The vector store: VectorStoreService. Its three maps are functions from
   identifiers to records. *)

NoEntries == <<>>

Put(map, k, v) == (k :> v) @@ map

RECURSIVE Only(_, _)
Only(map, ks) ==
    IF ks = {}
    THEN NoEntries
    ELSE LET k == CHOOSE x \in ks : TRUE
         IN  (k :> map[k]) @@ Only(map, ks \ {k})

Drop(map, ks) == Only(map, DOMAIN map \ ks)

Values(map) == {map[k] : k \in DOMAIN map}

Range(seq) == {seq[i] : i \in 1..Len(seq)}

(* createEmptyStore (version and the two timestamps are left out). *)
createEmptyStore ==
    [articles |-> NoEntries, chunks |-> NoEntries, embeddings |-> NoEntries,
     metadata |-> [totalArticles |-> 0, totalChunks |-> 0, embeddingModel |-> "",
                   chunkSize |-> DefaultChunkSize, chunkOverlap |-> DefaultChunkOverlap]]

(* JSON.stringify of a Record<>: the members of the object, name and value. *)
Members(map) == {<<k, map[k]>> : k \in DOMAIN map}

(* JSON.parse of an object: the Record<> that holds its members. *)
RECURSIVE FromMembers(_)
FromMembers(members) ==
    IF members = {}
    THEN NoEntries
    ELSE LET m == CHOOSE x \in members : TRUE
         IN  Put(FromMembers(members \ {m}), m[1], m[2])

(* JSON.stringify(this.vectorStore, null, 2), line 78: the document holds the
   members of the three maps and the metadata. Every field of the model's
   articles, chunks and embeddings is a number, a string or an array of
   numbers, which JSON carries as it is. *)
Document(store) ==
    [articles |-> Members(store.articles), chunks |-> Members(store.chunks),
     embeddings |-> Members(store.embeddings), metadata |-> store.metadata]

(* The store file: absent, unparseable, or the JSON document of a store. *)
AbsentFile == [state |-> "absent", data |-> Document(createEmptyStore)]

CorruptFile == [state |-> "corrupt", data |-> Document(createEmptyStore)]

(* fs.writeFile of the document, lines 78-79. *)
stringify(store) == [state |-> "json", data |-> Document(store)]

(* JSON.parse of the file with the embeddings member left unread. *)
parseWithoutEmbeddings(f) ==
    [articles |-> FromMembers(f.data.articles), chunks |-> FromMembers(f.data.chunks),
     embeddings |-> NoEntries, metadata |-> f.data.metadata]

(* fs.readFile and JSON.parse, lines 38-39. *)
parse(f) ==
    [articles |-> FromMembers(f.data.articles), chunks |-> FromMembers(f.data.chunks),
     embeddings |-> FromMembers(f.data.embeddings), metadata |-> f.data.metadata]

(* load, lines 32-57: the store in memory after load. *)
load(f, readable) ==
    IF f.state = "json" /\ readable THEN parse(f) ELSE createEmptyStore

(* save, lines 62-86. outcome: "ok", "mkdirFails" (thrown before the metadata
   is touched), "writeFails" (writeFile throws and leaves the file as it was)
   or "writeTruncates" (writeFile throws after truncating the file). *)
save(store, loaded, f, outcome) ==
    LET counted == [store EXCEPT !.metadata.totalArticles = Cardinality(DOMAIN store.articles),
                                 !.metadata.totalChunks = Cardinality(DOMAIN store.chunks)]
    IN  IF ~loaded \/ outcome = "mkdirFails"
        THEN [store |-> store, file |-> f, threw |-> TRUE]
        ELSE IF outcome = "writeFails"
        THEN [store |-> counted, file |-> f, threw |-> TRUE]
        ELSE IF outcome = "writeTruncates"
        THEN [store |-> counted, file |-> CorruptFile, threw |-> TRUE]
        ELSE [store |-> counted, file |-> stringify(counted), threw |-> FALSE]

(* upsertData, lines 107-120 with the assignment guarded: an identifier that
   is already stored keeps its entry. *)
RECURSIVE putAllFirstWins(_, _)
putAllFirstWins(map, list) ==
    IF list = <<>>
    THEN map
    ELSE putAllFirstWins(IF Head(list).id \in DOMAIN map
                         THEN map
                         ELSE Put(map, Head(list).id, Head(list)),
                         Tail(list))

(* upsertData, lines 107-120: each entry of the list is stored under its id,
   in list order. *)
RECURSIVE putAll(_, _)
putAll(map, list) ==
    IF list = <<>> THEN map ELSE putAll(Put(map, Head(list).id, Head(list)), Tail(list))

(* upsertData, lines 107-125: the store in memory before save. *)
upsert(store, articles, cs, es, embeddingModel, chunkSize, chunkOverlap) ==
    [articles |-> putAll(store.articles, articles),
     chunks |-> putAll(store.chunks, cs),
     embeddings |-> putAll(store.embeddings, es),
     metadata |-> [store.metadata EXCEPT !.embeddingModel = embeddingModel,
                                         !.chunkSize = chunkSize,
                                         !.chunkOverlap = chunkOverlap]]

(* upsertData, lines 91-128, on the loaded store base with the output of
   processArticles: save's outcome. *)
upsertData(base, articles, made, embeddingModel, chunkSize, chunkOverlap, f, outcome) ==
    save(upsert(base, articles, made.chunks, made.embeddings, embeddingModel,
                chunkSize, chunkOverlap),
         TRUE, f, outcome)

(* removeArticles, lines 343-359 without the cascade: only the articles go. *)
removeWithoutCascade(store, articleIds) ==
    [store EXCEPT !.articles = Drop(store.articles, articleIds)]

(* removeArticles, lines 343-359: the store in memory before save. *)
remove(store, articleIds) ==
    LET gone == {c \in DOMAIN store.chunks : store.chunks[c].articleId \in articleIds}
    IN  [store EXCEPT !.articles = Drop(store.articles, articleIds),
                      !.chunks = Drop(store.chunks, gone),
                      !.embeddings = Drop(store.embeddings, {EmbeddingId(c) : c \in gone})]

(* needsReindexing that takes an article of equal updated_at as updated. *)
needsReindexingNotOlder(store, loaded, articles) ==
    IF ~loaded
    THEN [needsReindex |-> TRUE, newArticles |-> articles, updatedArticles |-> <<>>,
          deletedArticleIds |-> {}]
    ELSE LET existing == store.articles
             new == SelectSeq(articles, LAMBDA a : a.id \notin DOMAIN existing)
             updated == SelectSeq(articles, LAMBDA a :
                            /\ a.id \in DOMAIN existing
                            /\ a.updated_at >= existing[a.id].updated_at)
             deleted == DOMAIN existing \ {articles[i].id : i \in 1..Len(articles)}
         IN  [needsReindex |-> new # <<>> \/ updated # <<>> \/ deleted # {},
              newArticles |-> new, updatedArticles |-> updated,
              deletedArticleIds |-> deleted]

(* needsReindexing that compares the stored keys as strings with the numeric
   ids fetched: no stored key is found among them. *)
needsReindexingStringKeys(store, loaded, articles) ==
    IF ~loaded
    THEN [needsReindex |-> TRUE, newArticles |-> articles, updatedArticles |-> <<>>,
          deletedArticleIds |-> {}]
    ELSE LET existing == store.articles
             new == SelectSeq(articles, LAMBDA a : a.id \notin DOMAIN existing)
             updated == SelectSeq(articles, LAMBDA a :
                            /\ a.id \in DOMAIN existing
                            /\ a.updated_at > existing[a.id].updated_at)
             deleted == DOMAIN existing
         IN  [needsReindex |-> new # <<>> \/ updated # <<>> \/ deleted # {},
              newArticles |-> new, updatedArticles |-> updated,
              deletedArticleIds |-> deleted]

(* needsReindexing, lines 288-331, on the fetched articles in fetch order. *)
needsReindexing(store, loaded, articles) ==
    IF ~loaded
    THEN [needsReindex |-> TRUE, newArticles |-> articles, updatedArticles |-> <<>>,
          deletedArticleIds |-> {}]
    ELSE LET existing == store.articles
             new == SelectSeq(articles, LAMBDA a : a.id \notin DOMAIN existing)
             updated == SelectSeq(articles, LAMBDA a :
                            /\ a.id \in DOMAIN existing
                            /\ a.updated_at > existing[a.id].updated_at)
             deleted == DOMAIN existing \ {articles[i].id : i \in 1..Len(articles)}
         IN  [needsReindex |-> new # <<>> \/ updated # <<>> \/ deleted # {},
              newArticles |-> new, updatedArticles |-> updated,
              deletedArticleIds |-> deleted]

--------------------------------------------------------------------------
(* The accessors, lines 212-283: whether the call threw, and value, the set
   holding what it returned (empty for null). *)

getArticle(store, loaded, articleId) ==
    IF ~loaded
    THEN [threw |-> TRUE, value |-> {}]
    ELSE [threw |-> FALSE,
          value |-> {store.articles[k] : k \in DOMAIN store.articles \cap {articleId}}]

getChunk(store, loaded, chunkId) ==
    IF ~loaded
    THEN [threw |-> TRUE, value |-> {}]
    ELSE [threw |-> FALSE,
          value |-> {store.chunks[k] : k \in DOMAIN store.chunks \cap {chunkId}}]

\* The array returned is taken as the set of its elements.
getArticleChunks(store, loaded, articleId) ==
    IF ~loaded
    THEN [threw |-> TRUE, value |-> {}]
    ELSE [threw |-> FALSE,
          value |-> {c \in Values(store.chunks) : c.articleId = articleId}]

getStats(store, loaded) ==
    IF ~loaded
    THEN [threw |-> TRUE, value |-> {}]
    ELSE [threw |-> FALSE,
          value |-> {[totalArticles |-> Cardinality(DOMAIN store.articles),
                      totalChunks |-> Cardinality(DOMAIN store.chunks),
                      totalEmbeddings |-> Cardinality(DOMAIN store.embeddings),
                      embeddingModel |-> store.metadata.embeddingModel]}]

hasArticle(store, loaded, articleId) ==
    [threw |-> FALSE, value |-> {loaded /\ articleId \in DOMAIN store.articles}]

--------------------------------------------------------------------------
(* search: cosine similarity, recency boost, ranking. *)

Abs(x) == IF x < 0 THEN -x ELSE x

\* Math.sqrt(n) in fixed point: the integer square root of n * SimScale^2.
SqrtTable ==
    [n \in 0..NormLimit |->
        CHOOSE r \in 0..(SimScale * n) :
            r * r <= n * SimScale * SimScale /\ n * SimScale * SimScale < (r + 1) * (r + 1)]

RECURSIVE dot(_, _)
dot(a, b) == IF a = <<>> THEN 0 ELSE Head(a) * Head(b) + dot(Tail(a), Tail(b))

(* cosineSimilarity, lines 372-388, for vectors of the same length; fixed
   point, SimScale = 1.0. *)
cosineSimilarity(a, b) ==
    LET magnitude == SqrtTable[dot(a, a)] * SqrtTable[dot(b, b)]
    IN  IF magnitude = 0
        THEN 0
        ELSE (dot(a, b) * SimScale * SimScale * SimScale) \div magnitude

(* getArticleAgeInDays, lines 394-400. *)
getArticleAgeInDays(updatedAt, now) == CeilDiv(Abs(now - updatedAt), DayLength)

(* A score is a similarity times a boost factor; factors are counted in
   units of 1 / (DaysPerYear * 100), so that 1.0 is ScoreUnit. *)
ScoreUnit == DaysPerYear * 100

(* The boost without its floor: recentBoostFactor - articleAge / 365. *)
boostFactorUnfloored(opts, age) == DaysPerYear * opts.recentBoostPct - 100 * age

(* search, line 183: Math.max(1, recentBoostFactor - articleAge / 365). *)
boostFactor(opts, age) ==
    LET f == DaysPerYear * opts.recentBoostPct - 100 * age
    IN  IF f > ScoreUnit THEN f ELSE ScoreUnit

(* search, line 174 with the boosted score put to the threshold test. *)
passesThresholdByScore(similarity, score, opts) == score >= opts.minSimilarity * ScoreUnit

(* search, line 174: the threshold test. *)
passesThreshold(similarity, score, opts) == similarity >= opts.minSimilarity

(* search with the chunk looked up by the article alone: every embedding is
   paired with the first chunk of its article. *)
scoredWithFirstChunk(store, e, query, opts, now) ==
    LET similarity == cosineSimilarity(query, e.vector)
        chunk == store.chunks[ChunkId(e.articleChunkId[1], 0)]
        score == IF opts.boostRecent
                 THEN similarity * boostFactor(opts, getArticleAgeInDays(chunk.updatedAt, now))
                 ELSE similarity * ScoreUnit
    IN  [chunk |-> chunk, embedding |-> e, similarity |-> similarity, score |-> score]

(* search, lines 159-195: the result pushed for one embedding, if any. *)
scored(store, e, query, opts, now) ==
    LET similarity == cosineSimilarity(query, e.vector)
        chunk == store.chunks[e.articleChunkId]
        score == IF opts.boostRecent
                 THEN similarity * boostFactor(opts, getArticleAgeInDays(chunk.updatedAt, now))
                 ELSE similarity * ScoreUnit
    IN  [chunk |-> chunk, embedding |-> e, similarity |-> similarity, score |-> score]

candidates(store, query, opts, now) ==
    {scored(store, e, query, opts, now) :
        e \in {x \in Values(store.embeddings) : x.articleChunkId \in DOMAIN store.chunks}}

\* The iteration order of the embeddings map, by identifier.
Before(x, y) == x[1] < y[1] \/ (x[1] = y[1] /\ x[2] <= y[2])

(* search, line 198 with the sort dropped: the results in iteration order. *)
RECURSIVE inIterationOrder(_)
inIterationOrder(rs) ==
    IF rs = {}
    THEN <<>>
    ELSE LET first == CHOOSE r \in rs : \A o \in rs : Before(r.embedding.id, o.embedding.id)
         IN  <<first>> \o inIterationOrder(rs \ {first})

(* search, line 198: results.sort((a, b) => b.score - a.score), a stable sort
   of the results in iteration order. *)
RECURSIVE sortByScore(_)
sortByScore(rs) ==
    IF rs = {}
    THEN <<>>
    ELSE LET top == CHOOSE r \in rs : \A o \in rs :
                        \/ r.score > o.score
                        \/ r.score = o.score /\ Before(r.embedding.id, o.embedding.id)
         IN  <<top>> \o sortByScore(rs \ {top})

(* search, lines 133-207 with cosineSimilarity's length test dropped: the
   embeddings whose length differs from the query's are passed over. *)
searchSkippingMismatch(store, query, opts, now) ==
    LET same == [store EXCEPT !.embeddings =
                    Only(store.embeddings,
                         {k \in DOMAIN store.embeddings :
                            Len(store.embeddings[k].vector) = Len(query)})]
        ranked == sortByScore({r \in candidates(same, query, opts, now) :
                                passesThreshold(r.similarity, r.score, opts)})
    IN  [threw |-> FALSE,
         results |-> SubSeq(ranked, 1, IF Len(ranked) < opts.maxResults
                                       THEN Len(ranked) ELSE opts.maxResults)]

(* search, lines 133-207, on a loaded store: threw when a stored vector's
   length differs from the query's, else the ranked and limited results. *)
searchStore(store, query, opts, now) ==
    IF \E e \in Values(store.embeddings) : Len(e.vector) # Len(query)
    THEN [threw |-> TRUE, results |-> <<>>]
    ELSE LET kept == {r \in candidates(store, query, opts, now) :
                        passesThreshold(r.similarity, r.score, opts)}
             ranked == sortByScore(kept)
         IN  [threw |-> FALSE,
              results |-> SubSeq(ranked, 1, IF Len(ranked) < opts.maxResults
                                            THEN Len(ranked) ELSE opts.maxResults)]

--------------------------------------------------------------------------
(* The inputs of the store's operations. *)

ArticleIds == {1, 2}

\* The chunk ids asked of getChunk.
ChunkIds == {ChunkId(articleId, index) : articleId \in ArticleIds, index \in {0, 3}}

(* this.config.chunking of the reindex handler, scaled down; both boundary
   flags are set as in getAppConfig. *)
StoreOptions == [size |-> 3, overlap |-> 1, preserveWords |-> TRUE, preserveSentences |-> TRUE]

EmbeddingModel == "model"

article(id, updatedAt, text) == [id |-> id, updated_at |-> updatedAt, body |-> text]

(* The versions of the two articles that the document source may return
   (after htmlToText): article 1 shrinks from its first to its second
   version, article 2 has an empty body in its second version. *)
Catalogue ==
    {article(1, 1, TextOf(<<"a", "a", ".", " ", "a", "a", "a">>)),
     article(1, 2, TextOf(<<"a", "a">>)),
     article(1, 3, TextOf(<<"a", " ", "a", ".", " ", "a">>)),
     article(2, 1, TextOf(<<"a", "a", "a", " ", "a", "a">>)),
     article(2, 2, EmptyText)}

(* The results of fetchAllArticles: at most one version of each article, in
   id order; and one result that lists article 1 twice, in two versions. *)
FetchedSets ==
    LET pick(id) == {<<>>} \cup {<<a>> : a \in {x \in Catalogue : x.id = id}}
    IN  {p1 \o p2 : p1 \in pick(1), p2 \in pick(2)}
            \cup {<<article(1, 1, TextOf(<<"a", "a", ".", " ", "a", "a", "a">>)),
                    article(1, 2, TextOf(<<"a", "a">>))>>}

(* The articles handed to processArticles: the two versions of article 1, of
   4 chunks and of 1 chunk, article 2 with the empty body that chunkArticle
   rejects, and article 3, whose 6 chunks fill one batch and start a second. *)
IngestCatalogue ==
    {article(1, 1, TextOf(<<"a", "a", ".", " ", "a", "a", "a">>)),
     article(1, 2, TextOf(<<"a", "a">>)),
     article(2, 2, EmptyText),
     article(3, 1, TextOf([i \in 1..12 |-> "a"]))}

(* The number of articles of one run. *)
MaxArticles == 2

IngestInputs == BoundedSeq(IngestCatalogue, MaxArticles)

IngestArticleIds == {a.id : a \in IngestCatalogue}

IngestChunkIds ==
    {ChunkId(1, index) : index \in 0..3} \cup {ChunkId(3, index) : index \in 0..5}

(* The chunks that fail a batch call, and those that fail their single call,
   in one run. *)
MaxBatchFailures == 1

MaxSingleFailures == 1

IngestEnvironments ==
    [slow : SUBSET IngestArticleIds,
     failedBatches : {f \in SUBSET IngestChunkIds : Cardinality(f) <= MaxBatchFailures},
     failedSingles : {f \in SUBSET IngestChunkIds : Cardinality(f) <= MaxSingleFailures}]

(* The number of requests whose outcome the environment fixes in advance:
   one more than retryRequest may make. *)
MaxRequests == 5

ResponseRuns == [1..MaxRequests -> Responses]

(* The time that passes before a call of the embedding client: none, or so
   much that every recorded request has left the window. *)
Elapsed == {0, Window + 1000}

(* The clock stops the model at MaxClock. *)
MaxClock == 70000

(* total_tokens of a backend answer, and how many answers are recorded. *)
TokenCounts == {25000}

MaxTokenRecords == 2

(* total_tokens of an answer of the generation backend. *)
ChatTokenCounts == {150000}

(* The messages the user sends, and the most messages of a session. *)
UserMessages == {"q"}

MaxMessages == 5

(* The most calls of generateResponse one limiter records. *)
MaxCalls == 4

(* What the generation backend does with the requests of one call: it answers
   the first, it answers after one 429, it answers 404, it answers 500 to
   every request. *)
ChatRuns ==
    {[i \in 1..MaxRequests |-> Ok],
     [i \in 1..MaxRequests |-> IF i = 1 THEN Http(429) ELSE Ok],
     [i \in 1..MaxRequests |-> Http(404)],
     [i \in 1..MaxRequests |-> Http(500)]}

(* The history file a chat process may find: none, or an earlier session. *)
HistoryFiles ==
    {<<>>,
     <<message("system", "prompt"), message("user", "q"), message("assistant", "answer")>>}

(* The pages fetchAllArticles asks for are at most MaxPages. *)
MaxPages == 3

(* The articles one page of the listing holds. *)
PageContents ==
    {<<>>,
     <<[id |-> 1, draft |-> FALSE]>>,
     <<[id |-> 1, draft |-> TRUE], [id |-> 2, draft |-> FALSE]>>}

NextPages == {"url", "null", "absent"}

(* What Zendesk does with the requests for one page: it answers the first,
   it answers after one 500, it answers 500 to every request. *)
PageRuns ==
    {[i \in 1..MaxRequests |-> Ok],
     [i \in 1..MaxRequests |-> IF i = 1 THEN Http(500) ELSE Ok],
     [i \in 1..MaxRequests |-> Http(500)]}

(* The requests recorded by one limiter are at most MaxRecorded. *)
MaxRecorded == 205

Queries == {<<1, 0>>, <<0, 1>>, <<1, 1>>, <<-1, 1>>, <<1, 0, 0>>}

SearchOptionsSet ==
    [maxResults : 1..MaxResults, minSimilarity : {0, 75, SimScale},
     boostRecent : BOOLEAN, recentBoostPct : {110}]

NowValues == {DayLength, 30 * DayLength, 400 * DayLength}

SaveOutcomes == {"ok", "mkdirFails", "writeFails", "writeTruncates"}

NoSearch ==
    [query |-> <<>>, now |-> 0, results |-> <<>>,
     options |-> [maxResults |-> 0, minSimilarity |-> 0, boostRecent |-> FALSE,
                  recentBoostPct |-> 0]]

ChunkerUnused ==
    /\ body = EmptyText /\ options = StoreOptions /\ cpc = "unused" /\ content = EmptyText
    /\ start = 0 /\ iterations = 0 /\ end = -1 /\ chunks = <<>> /\ result = <<>>
    /\ error = "none"

NoDiff ==
    [needsReindex |-> FALSE, newArticles |-> <<>>, updatedArticles |-> <<>>,
     deletedArticleIds |-> {}]

(* The arguments of a call on the store: articleIds of removeArticles, or the
   one articleId of an accessor; chunkIds, the one chunkId of getChunk;
   articles, chunks and embeddings of upsertData; fetched, the documents handed
   to needsReindexing. *)
NoArgs ==
    [articleIds |-> {}, chunkIds |-> {}, articles |-> <<>>, chunks |-> <<>>,
     embeddings |-> <<>>, fetched |-> <<>>]

(* A call on the store: its arguments, whether it threw, what needsReindexing
   returned, when the call is about it, and value, the set holding what an
   accessor returned (empty for null and for the other calls). *)
Call(op, args, threw, diff) ==
    [op |-> op, args |-> args, threw |-> threw, diff |-> diff, value |-> {}]

(* No run of processArticles was made. *)
NoIngest ==
    [pc |-> "idle", articles |-> <<>>, slow |-> {}, failedBatches |-> {},
     failedSingles |-> {}, visited |-> <<>>, chunks |-> <<>>, embeddings |-> <<>>,
     calls |-> <<>>, threw |-> FALSE, returned |-> FALSE]

(* No call was made through retryRequest. *)
NoRetry ==
    [pc |-> "idle", client |-> "none", op |-> "none", responses |-> <<>>,
     attempts |-> 0, sleeps |-> <<>>, returned |-> FALSE, raised |-> {}, value |-> {}]

(* EmbeddingService after construction, lines 32-35, at time 0. *)
NoLimiter ==
    [client |-> "embedding", requests |-> <<>>, tokens |-> <<>>, clock |-> 0,
     op |-> "constructor", now |-> 0, asked |-> 0, slept |-> <<>>,
     returned |-> FALSE, threw |-> FALSE]

(* ChatService after construction: no current session; no history file. *)
NoSession ==
    [started |-> FALSE, messages |-> <<>>, file |-> <<>>, op |-> "constructor",
     before |-> <<>>, request |-> <<>>, threw |-> FALSE]

(* fetchAllArticles was not called. *)
NoPages ==
    [pc |-> "idle", page |-> 0, requested |-> <<>>, last |-> "none",
     articles |-> <<>>]

(* The services other than chunker and store, constructed and not yet used. *)
ClientsUnused ==
    /\ ingest = NoIngest /\ retry = NoRetry /\ limiter = NoLimiter
    /\ session = NoSession /\ pages = NoPages

(* The store after construction, lines 21-27, with no store file yet. *)
StoreConstructed ==
    /\ isLoaded = FALSE /\ vectorStore = createEmptyStore /\ file = AbsentFile
    /\ call = Call("constructor", NoArgs, FALSE, NoDiff) /\ search = NoSearch

--------------------------------------------------------------------------
(* The operations of the store, each a whole call. A fault is a save that
   fails, a store file that cannot be read, or a run of processArticles in
   which embedding calls fail for good. *)

Faulty(outcome, readable, failed) == outcome # "ok" \/ ~readable \/ failed # {}

SpendFault(outcome, readable, failed) ==
    /\ Faulty(outcome, readable, failed) => faultsLeft > 0
    /\ faultsLeft' = IF Faulty(outcome, readable, failed) THEN faultsLeft - 1 ELSE faultsLeft

(* The store in memory once the call made sure it is loaded. *)
Loaded(readable) == IF isLoaded THEN vectorStore ELSE load(file, readable)

(* Only a read that happens can fail. *)
ReadHappens(readable) == isLoaded \/ file.state # "json" => readable

(* The end of an operation that saved with the outcome saved. *)
Saved(op, args, diff, saved) ==
    /\ vectorStore' = saved.store
    /\ file' = saved.file
    /\ call' = Call(op, args, saved.threw, diff)
    /\ search' = NoSearch
    /\ UNCHANGED <<chunkerVars, clientVars>>

(* A load that rethrows the error of a failed read or parse. *)
LoadRethrowing ==
    \E readable \in BOOLEAN :
        /\ SpendFault("ok", readable, {})
        /\ vectorStore' = load(file, readable)
        /\ isLoaded' = (file.state # "corrupt" /\ (file.state = "json" => readable))
        /\ call' = Call("load", NoArgs, ~isLoaded', NoDiff)
        /\ search' = NoSearch
        /\ UNCHANGED <<file, chunkerVars, clientVars>>

(* load, lines 32-57. *)
Load ==
    \E readable \in BOOLEAN :
        /\ SpendFault("ok", readable, {})
        /\ vectorStore' = load(file, readable)
        /\ isLoaded' = TRUE
        /\ call' = Call("load", NoArgs, FALSE, NoDiff)
        /\ search' = NoSearch
        /\ UNCHANGED <<file, chunkerVars, clientVars>>

(* A new process: the constructor runs again, the store file stays. *)
Restart ==
    /\ isLoaded
    /\ isLoaded' = FALSE
    /\ vectorStore' = createEmptyStore
    /\ call' = Call("constructor", NoArgs, FALSE, NoDiff)
    /\ search' = NoSearch
    /\ UNCHANGED <<file, faultsLeft, chunkerVars, clientVars>>

(* RAGZendeskCLI.reindexArticles, lines 720-731, for the articles to process
   and their chunks cs: the embedding calls, then upsertData (which loads an
   unloaded store first and saves at its end). *)
ProcessAndUpsert(fetched, diff, articlesToProcess, cs, made) ==
    \E outcome \in SaveOutcomes, readable \in BOOLEAN :
        /\ ReadHappens(readable)
        /\ SpendFault(outcome, readable, {c.id : c \in Range(cs)} \ {e.articleChunkId : e \in Range(made.embeddings)})
        /\ isLoaded' = TRUE
        /\ Saved("upsertData",
                 [NoArgs EXCEPT !.articles = articlesToProcess, !.chunks = made.chunks,
                                !.embeddings = made.embeddings, !.fetched = fetched],
                 diff,
                 upsertData(Loaded(readable), articlesToProcess, made,
                            EmbeddingModel, StoreOptions.size, StoreOptions.overlap,
                            file, outcome))

(* RAGZendeskCLI.reindexArticles, lines 720-724: processArticles, with the
   embedding calls of at most MaxEmbedFailures chunks failing for good. *)
ProcessThenUpsert(fetched, diff, articlesToProcess, cs) ==
    \E failed \in {f \in SUBSET {cs[i].id : i \in 1..Len(cs)} : Cardinality(f) <= MaxEmbedFailures} :
        ProcessAndUpsert(fetched, diff, articlesToProcess, cs, embedChunks(cs, failed))

(* RAGZendeskCLI.reindexArticles, lines 700-718, on the outcome diff of
   needsReindexing. *)
ReindexIfNeeded(fetched, diff) ==
    IF ~diff.needsReindex
    THEN /\ call' = Call("needsReindexing", [NoArgs EXCEPT !.fetched = fetched], FALSE, diff)
         /\ search' = NoSearch
         /\ UNCHANGED <<isLoaded, vectorStore, file, faultsLeft, chunkerVars, clientVars>>
    ELSE ProcessThenUpsert(fetched, diff, diff.newArticles \o diff.updatedArticles,
                           processChunks(diff.newArticles \o diff.updatedArticles, StoreOptions))

(* RAGZendeskCLI.reindexArticles, lines 700-750, from the fetched and converted
   articles on. *)
Reindex ==
    \E fetched \in FetchedSets :
        ReindexIfNeeded(fetched, needsReindexing(vectorStore, isLoaded, fetched))

(* removeArticles, lines 336-362. *)
RemoveArticles ==
    \E articleIds \in SUBSET ArticleIds, outcome \in SaveOutcomes, readable \in BOOLEAN :
        /\ ReadHappens(readable)
        /\ SpendFault(outcome, readable, {})
        /\ isLoaded' = TRUE
        /\ Saved("removeArticles", [NoArgs EXCEPT !.articleIds = articleIds], NoDiff,
                 save(remove(Loaded(readable), articleIds), TRUE, file, outcome))

(* clear, lines 268-272: the store is emptied, then saved; save throws on a
   store that is not loaded. *)
Clear ==
    \E outcome \in SaveOutcomes :
        /\ ~isLoaded => outcome = "ok"
        /\ SpendFault(outcome, TRUE, {})
        /\ UNCHANGED isLoaded
        /\ Saved("clear", NoArgs, NoDiff, save(createEmptyStore, isLoaded, file, outcome))

(* A search that writes the store it searched back to the file. *)
SearchedAndSaved(base, query, opts, now, found) ==
    /\ vectorStore' = base
    /\ isLoaded' = TRUE
    /\ call' = Call("search", NoArgs, found.threw, NoDiff)
    /\ search' = [query |-> query, options |-> opts, now |-> now, results |-> found.results]
    /\ file' = stringify(base)
    /\ UNCHANGED <<chunkerVars, clientVars>>

(* search, lines 133-207, on the loaded store base. *)
Searched(base, query, opts, now, found) ==
    /\ vectorStore' = base
    /\ isLoaded' = TRUE
    /\ call' = Call("search", NoArgs, found.threw, NoDiff)
    /\ search' = [query |-> query, options |-> opts, now |-> now, results |-> found.results]
    /\ UNCHANGED <<file, chunkerVars, clientVars>>

(* search, lines 133-207; an unloaded store is loaded first. *)
Search ==
    \E query \in Queries, opts \in SearchOptionsSet, now \in NowValues, readable \in BOOLEAN :
        /\ ReadHappens(readable)
        /\ SpendFault("ok", readable, {})
        /\ Searched(Loaded(readable), query, opts, now,
                    searchStore(Loaded(readable), query, opts, now))

(* The end of an accessor call that returned or threw as r. *)
Accessed(op, args, r) ==
    /\ call' = [Call(op, args, r.threw, NoDiff) EXCEPT !.value = r.value]
    /\ search' = NoSearch
    /\ UNCHANGED <<isLoaded, vectorStore, file, faultsLeft, chunkerVars, clientVars>>

GetArticle ==
    \E articleId \in ArticleIds :
        Accessed("getArticle", [NoArgs EXCEPT !.articleIds = {articleId}],
                 getArticle(vectorStore, isLoaded, articleId))

GetChunk ==
    \E chunkId \in ChunkIds :
        Accessed("getChunk", [NoArgs EXCEPT !.chunkIds = {chunkId}],
                 getChunk(vectorStore, isLoaded, chunkId))

GetArticleChunks ==
    \E articleId \in ArticleIds :
        Accessed("getArticleChunks", [NoArgs EXCEPT !.articleIds = {articleId}],
                 getArticleChunks(vectorStore, isLoaded, articleId))

GetStats == Accessed("getStats", NoArgs, getStats(vectorStore, isLoaded))

HasArticle ==
    \E articleId \in ArticleIds :
        Accessed("hasArticle", [NoArgs EXCEPT !.articleIds = {articleId}],
                 hasArticle(vectorStore, isLoaded, articleId))

(* The store with at most MaxFaults faults. *)
Init == ChunkerUnused /\ StoreConstructed /\ ClientsUnused /\ faultsLeft = MaxFaults

Next == Load \/ Restart \/ Reindex \/ RemoveArticles \/ Clear

Spec == Init /\ [][Next]_vars

(* A new process that finds the store file written by the first reindex run
   of an earlier one, a run in which at most MaxEmbedFailures embedding calls
   failed for good; the process searches. *)
firstRunFile(fetched, cs, failed) ==
    upsertData(createEmptyStore, fetched, embedChunks(cs, failed), EmbeddingModel,
               StoreOptions.size, StoreOptions.overlap, AbsentFile, "ok").file

firstRunFiles(fetched, cs) ==
    {firstRunFile(fetched, cs, failed) :
        failed \in {f \in SUBSET {cs[i].id : i \in 1..Len(cs)} :
                        Cardinality(f) <= MaxEmbedFailures}}

StoreFiles == UNION {firstRunFiles(fetched, processChunks(fetched, StoreOptions)) :
                        fetched \in FetchedSets}

PairingInit ==
    /\ ChunkerUnused /\ ClientsUnused /\ faultsLeft = 0
    /\ isLoaded = FALSE /\ vectorStore = createEmptyStore /\ file \in StoreFiles
    /\ call = Call("constructor", NoArgs, FALSE, NoDiff) /\ search = NoSearch

PairingNext == Search

SpecPairing == PairingInit /\ [][PairingNext]_vars

(* The store and its search path without faults. *)
SearchInit == ChunkerUnused /\ StoreConstructed /\ ClientsUnused /\ faultsLeft = 0

SearchNext == Load \/ Reindex \/ RemoveArticles \/ Search

SpecSearch == SearchInit /\ [][SearchNext]_vars

(* The store, its diff and its accessors without faults and without search. *)
AccessInit == ChunkerUnused /\ StoreConstructed /\ ClientsUnused /\ faultsLeft = 0

AccessNext ==
    \/ Load \/ Restart \/ Reindex \/ RemoveArticles
    \/ GetArticle \/ GetChunk \/ GetArticleChunks \/ GetStats \/ HasArticle

SpecAccess == AccessInit /\ [][AccessNext]_vars

(* The store with every read path, without faults. *)
ReadNext == AccessNext \/ Search

SpecRead == AccessInit /\ [][ReadNext]_vars

--------------------------------------------------------------------------
(* The ingestion alone: runs of processArticles under every environment. *)

(* The end of a run of processArticles. *)
Processed(run) ==
    /\ ingest' = [ingest EXCEPT !.pc = "done", !.visited = run.visited,
                                !.chunks = run.chunks, !.embeddings = run.embeddings,
                                !.calls = run.calls, !.threw = run.threw,
                                !.returned = ~run.threw]
    /\ UNCHANGED <<chunkerVars, storeVars, retry, limiter, session, pages>>

(* processArticles, lines 49-156, called with ingest.articles under the
   environment of the run. *)
ProcessArticles ==
    /\ ingest.pc = "call"
    /\ Processed(processArticlesRun(ingest.articles, StoreOptions,
                                    [slow |-> ingest.slow,
                                     failedBatches |-> ingest.failedBatches,
                                     failedSingles |-> ingest.failedSingles]))

(* A call of processArticles about to be made, for every input and every
   environment. *)
IngestInit ==
    /\ ChunkerUnused /\ StoreConstructed /\ faultsLeft = 0
    /\ retry = NoRetry /\ limiter = NoLimiter
    /\ session = NoSession /\ pages = NoPages
    /\ \E articles \in IngestInputs, env \in IngestEnvironments :
           ingest = [NoIngest EXCEPT !.pc = "call", !.articles = articles,
                                    !.slow = env.slow,
                                    !.failedBatches = env.failedBatches,
                                    !.failedSingles = env.failedSingles]

IngestNext == ProcessArticles

SpecIngest == IngestInit /\ [][IngestNext]_vars

--------------------------------------------------------------------------
(* The backend calls alone: a call through retryRequest of one of the three
   clients, and fetchArticle of the document-source client, against every run
   of backend responses. *)

(* The end of a call made through retryRequest with the outcome r, as its
   caller sees it. *)
Called(r, seen) ==
    /\ retry' = [retry EXCEPT !.pc = "done", !.attempts = r.attempts, !.sleeps = r.sleeps,
                              !.returned = seen.returned, !.raised = seen.raised,
                              !.value = seen.value]
    /\ UNCHANGED <<chunkerVars, storeVars, ingest, limiter, session, pages>>

(* retryRequest, part_000:614-650, zendesk-oauth.ts:281-312 and 1219-1250. *)
RetryRequest ==
    /\ retry.pc = "call" /\ retry.op = "retryRequest"
    /\ Called(retryRequest(retry.client, retry.responses),
              [returned |-> retryRequest(retry.client, retry.responses).returned,
               raised |-> retryRequest(retry.client, retry.responses).raised,
               value |-> {}])

(* fetchArticle, zendesk-oauth.ts:108-125. *)
FetchArticle ==
    /\ retry.pc = "call" /\ retry.op = "fetchArticle"
    /\ Called(retryRequest(retry.client, retry.responses),
              fetchArticle(retryRequest(retry.client, retry.responses)))

RetryInit ==
    /\ ChunkerUnused /\ StoreConstructed /\ faultsLeft = 0
    /\ ingest = NoIngest /\ limiter = NoLimiter
    /\ session = NoSession /\ pages = NoPages
    /\ \E client \in Clients, op \in {"retryRequest", "fetchArticle"},
          responses \in ResponseRuns :
           /\ op = "fetchArticle" => client = "zendesk"
           /\ retry = [NoRetry EXCEPT !.pc = "call", !.client = client, !.op = op,
                                      !.responses = responses]

RetryNext == RetryRequest \/ FetchArticle

SpecRetry == RetryInit /\ [][RetryNext]_vars

--------------------------------------------------------------------------
(* The rate limiter alone: calls of enforceRateLimit for a batch or a single
   chunk, and the token usage recorded after an answer. *)

(* enforceRateLimit, lines 563-609, called by createEmbeddingBatch with the
   number of chunks (line 218) and by createEmbeddingForChunk with 1 (line
   255). *)
EnforceRateLimit ==
    \E requests \in requestCounts(limiter.client), elapsed \in Elapsed :
        /\ limiter.clock + elapsed <= MaxClock
        /\ Len(limiter.requests) < MaxRecorded
        /\ limiter' = enforceRateLimitOf(limiter, requests, limiter.clock + elapsed)
        /\ UNCHANGED <<chunkerVars, storeVars, ingest, retry, session, pages>>

(* Lines 231-236 and 268-273: the token usage of the answer to the request
   just let through is recorded. *)
RecordTokens ==
    \E count \in IF limiter.client = "chat" THEN ChatTokenCounts ELSE TokenCounts :
        /\ limiter.client # "zendesk"
        /\ limiter.op = "enforceRateLimit"
        /\ Len(limiter.tokens) < MaxTokenRecords
        /\ limiter' = [limiter EXCEPT
                           !.tokens = Append(@, [timestamp |-> limiter.clock, count |-> count]),
                           !.op = "recordTokens", !.now = limiter.clock, !.asked = 0,
                           !.slept = <<>>, !.returned = TRUE, !.threw = FALSE]
        /\ UNCHANGED <<chunkerVars, storeVars, ingest, retry, session, pages>>

LimiterInit == ChunkerUnused /\ StoreConstructed /\ ClientsUnused /\ faultsLeft = 0

LimiterNext == EnforceRateLimit \/ RecordTokens

SpecLimiter == LimiterInit /\ [][LimiterNext]_vars

--------------------------------------------------------------------------
(* The chat session: calls of generateResponse and clearHistory. *)

(* generateResponse, zendesk-oauth.ts lines 958-1036. *)
GenerateResponse ==
    \E userMessage \in UserMessages, responses \in ChatRuns, saveOk \in BOOLEAN,
       count \in ChatTokenCounts :
        /\ Len(entering(session)) < MaxMessages
        /\ Len(limiter.requests) < MaxCalls /\ limiter.clock <= MaxClock
        /\ session' = generateResponse(session, userMessage,
                                       retryRequest("chat", responses), saveOk)
        /\ limiter' = limitedChat(enforceRateLimitChat(limiter, 1, limiter.clock),
                                  retryRequest("chat", responses), count)
        /\ UNCHANGED <<chunkerVars, storeVars, ingest, retry, pages>>

(* clearHistory, zendesk-oauth.ts lines 949-953. *)
ClearHistory ==
    \E saveOk \in BOOLEAN :
        /\ session' = clearHistory(session, saveOk)
        /\ UNCHANGED <<chunkerVars, storeVars, ingest, retry, limiter, pages>>

SessionInit ==
    /\ ChunkerUnused /\ StoreConstructed /\ faultsLeft = 0
    /\ ingest = NoIngest /\ retry = NoRetry /\ pages = NoPages
    /\ limiter = [NoLimiter EXCEPT !.client = "chat"]
    /\ session \in {[NoSession EXCEPT !.file = f] : f \in HistoryFiles}

SessionNext == GenerateResponse \/ ClearHistory

SpecSession == SessionInit /\ [][SessionNext]_vars

--------------------------------------------------------------------------
(* The listing of the articles: fetchAllArticles, one page at a time. *)

(* Lines 52-57: the call, up to the while loop. *)
FetchAllArticles ==
    /\ pages.pc = "idle"
    /\ pages' = [pc |-> "loop", page |-> 1, requested |-> <<>>, last |-> "none",
                 articles |-> <<>>]
    /\ UNCHANGED <<chunkerVars, storeVars, ingest, retry, limiter, session>>

(* Lines 58-98: one turn of the loop; lines 101-102 when it was the last. *)
FetchPage ==
    \E responses \in PageRuns, listed \in PageContents, nextPage \in NextPages :
        /\ pages.pc = "loop" /\ pages.page <= MaxPages
        /\ pages' = fetchedPage(pages, retryRequest("zendesk", responses),
                                listed, nextPage)
        /\ limiter' = limitedPage(limiter, retryRequest("zendesk", responses),
                                  nextPage)
        /\ UNCHANGED <<chunkerVars, storeVars, ingest, retry, session>>

FetchInit ==
    /\ ChunkerUnused /\ StoreConstructed /\ faultsLeft = 0
    /\ ingest = NoIngest /\ retry = NoRetry
    /\ session = NoSession /\ pages = NoPages
    /\ limiter = [NoLimiter EXCEPT !.client = "zendesk"]

FetchNext == FetchAllArticles \/ FetchPage

SpecFetch == FetchInit /\ [][FetchNext]_vars

(* The rate limiter of each of the three backend clients. *)
PacingInit ==
    /\ ChunkerUnused /\ StoreConstructed /\ faultsLeft = 0
    /\ ingest = NoIngest /\ retry = NoRetry
    /\ session = NoSession /\ pages = NoPages
    /\ limiter \in {[NoLimiter EXCEPT !.client = c] : c \in Clients}

SpecPacing == PacingInit /\ [][LimiterNext]_vars

--------------------------------------------------------------------------
(* The chunker as a state machine: one call of chunkArticle. *)

ValidOptions(opts) == opts.size > 0 /\ opts.overlap >= 0 /\ opts.overlap < opts.size

ChunkerIdle ==
    /\ cpc = "call" /\ content = EmptyText /\ start = 0 /\ iterations = 0 /\ end = -1
    /\ chunks = <<>> /\ result = <<>> /\ error = "none"

(* chunkArticle up to the loop of splitText: lines 366-429 and 451-465. *)
ChunkArticle ==
    /\ cpc = "call"
    /\ UNCHANGED <<body, options, start, iterations, end, chunks>>
    /\ UNCHANGED <<storeVars, clientVars>>
    /\ IF body.len = 0
       THEN \* line 373: !content holds of the empty string
            /\ cpc' = "failed" /\ error' = "InvalidContent"
            /\ UNCHANGED <<content, result>>
       ELSE /\ content' = truncate(body)
            /\ IF content'.len <= options.size
               THEN /\ cpc' = "done" /\ result' = singleChunk(content')
                    /\ UNCHANGED error
               ELSE IF options.size <= 0
               THEN /\ cpc' = "failed" /\ error' = "InvalidChunkSize"
                    /\ UNCHANGED result
               ELSE IF options.overlap < 0 \/ options.overlap >= options.size
               THEN /\ cpc' = "failed" /\ error' = "InvalidOverlap"
                    /\ UNCHANGED result
               ELSE /\ cpc' = "split"
                    /\ UNCHANGED <<result, error>>

(* One iteration of the while loop of splitText, lines 467-516. *)
SplitIterate ==
    /\ cpc = "split"
    /\ start < content.len /\ iterations < maxIterations(content, options)
    /\ iterations' = iterations + 1
    /\ end' = windowEnd(content, options, start)
    /\ chunks' = pushChunk(content, chunks, start, end')
    /\ start' = nextStart(options, start, end')
    /\ cpc' = IF start' >= content.len \/ iterations' >= maxIterations(content, options)
              THEN "after" ELSE "split"
    /\ UNCHANGED <<body, options, content, result, error>>
    /\ UNCHANGED <<storeVars, clientVars>>

(* splitText after the loop, lines 518-524, and chunkArticle, lines 426-445. *)
SplitReturn ==
    /\ cpc = "after"
    /\ IF iterations >= maxIterations(content, options)
       THEN /\ cpc' = "failed" /\ error' = "ChunkingOverflow"
            /\ UNCHANGED result
       ELSE /\ cpc' = "done" /\ result' = toChunks(chunkTexts(content, chunks))
            /\ UNCHANGED error
    /\ UNCHANGED <<body, options, content, start, iterations, end, chunks>>
    /\ UNCHANGED <<storeVars, clientVars>>

ChunkerNext == ChunkArticle \/ SplitIterate \/ SplitReturn

(* Every body up to MaxBodyLen characters under every configuration up to
   MaxSize, the invalid ones included. *)
ChunkerInit ==
    /\ body \in {TextOf(seq) : seq \in BoundedSeq(Chars, MaxBodyLen)}
    /\ options \in [size : 0..MaxSize, overlap : -1..MaxSize,
                    preserveWords : BOOLEAN, preserveSentences : BOOLEAN]
    /\ ChunkerIdle
    /\ StoreConstructed /\ ClientsUnused /\ faultsLeft = 0

SpecChunker == ChunkerInit /\ [][ChunkerNext]_vars

--------------------------------------------------------------------------
(* The 2500-character scenario under the default size and overlap with
   preserveWords alone: bodies made of words of w characters separated by one
   whitespace, and bodies of non-whitespace characters holding one whitespace
   at position p (none when p is the body length). *)

wordsBody(w) ==
    [len |-> ScenarioBodyLen,
     spaces |-> {i \in 0..(ScenarioBodyLen - 1) : i % (w + 1) = w},
     enders |-> {}]

oneSpaceBody(p) ==
    [len |-> ScenarioBodyLen, spaces |-> {p} \cap 0..(ScenarioBodyLen - 1), enders |-> {}]

ScenarioBodies ==
    {wordsBody(w) : w \in 1..MaxWordLen}
        \cup {oneSpaceBody(k * (ScenarioBodyLen \div MaxSpots)) : k \in 1..MaxSpots}
        \cup {oneSpaceBody(ScenarioBodyLen)}

ScenarioInit ==
    /\ body \in ScenarioBodies
    /\ options = [size |-> DefaultChunkSize, overlap |-> DefaultChunkOverlap,
                  preserveWords |-> TRUE, preserveSentences |-> FALSE]
    /\ ChunkerIdle
    /\ StoreConstructed /\ ClientsUnused /\ faultsLeft = 0

SpecScenario == ScenarioInit /\ [][ChunkerNext]_vars

--------------------------------------------------------------------------
(* Long bodies under the smallest configured size (CHUNK_SIZE 100, config.ts
   line 39) and an overlap of half of it, with preserveWords alone: bodies of
   n non-whitespace characters with one whitespace every 51 characters. Each
   whitespace ends a window one character behind the overlap, and the next
   window ends at the same whitespace and forces progress: two iterations for
   51 characters, against the 50 the iteration cap counts on. *)

spacedBody(n) ==
    [len |-> n, spaces |-> {i \in 1..(n - 1) : i % 51 = 0}, enders |-> {}]

(* Lengths around the one at which the loop reaches its cap. *)
OverflowLengths == {5200, 5250, 5300, 5350}

OverflowInit ==
    /\ body \in {spacedBody(n) : n \in OverflowLengths}
    /\ options = [size |-> 100, overlap |-> 50,
                  preserveWords |-> TRUE, preserveSentences |-> FALSE]
    /\ ChunkerIdle
    /\ StoreConstructed /\ ClientsUnused /\ faultsLeft = 0

SpecOverflow == OverflowInit /\ [][ChunkerNext]_vars

--------------------------------------------------------------------------
(* Claims about the chat session. *)

\* After the system message the messages alternate: user, assistant, ...
Alternating(messages) ==
    /\ messages # <<>> /\ messages[1].role = "system"
    /\ \A i \in 2..Len(messages) :
            messages[i].role = (IF i % 2 = 0 THEN "user" ELSE "assistant")

(* C38: when the backend call of generateResponse fails after its retries,
   the messages of the session are those before the call: no user message is
   left without a reply, and the history keeps alternating user and assistant
   messages after the system message. *)
C38_FailedCallLeavesHistory ==
    /\ (session.op = "generateResponse" /\ session.threw) =>
            session.messages = session.before
    /\ session.started => Alternating(session.messages)

--------------------------------------------------------------------------
(* Claims about the listing of the articles. *)

(* C39: fetchAllArticles terminates: it asks for the pages 1, 2, ... each at
   most once, it stops after the first page whose response carries no next
   page, be next_page null or absent, and it returns only articles that are
   not drafts. *)
C39_StopsAtPageWithoutNext ==
    /\ \A i \in 1..Len(pages.requested) : pages.requested[i] = i
    /\ pages.pc = "loop" => pages.last \in {"none", "url"}
    /\ pages.pc = "done" => pages.last \in {"null", "absent"}
    /\ \A i \in 1..Len(pages.articles) : ~pages.articles[i].draft

--------------------------------------------------------------------------
(* Claims about the pairing of embeddings and chunks in search. *)

(* C37: every result of search pairs an embedding with the chunk stored under
   its articleChunkId; an embedding whose chunk is not stored is not returned,
   and a chunk without an embedding is not returned. *)
C37_ResultPairsEmbeddingWithItsChunk ==
    (call.op = "search" /\ ~call.threw) =>
        \A i \in 1..Len(search.results) :
            LET r == search.results[i]
            IN  /\ r.embedding \in Values(vectorStore.embeddings)
                /\ r.embedding.articleChunkId \in DOMAIN vectorStore.chunks
                /\ r.chunk = vectorStore.chunks[r.embedding.articleChunkId]
                /\ r.embedding.id = EmbeddingId(r.chunk.id)

\* A search returned results from a store that holds a chunk whose embedding
\* failed: every other chunk of the store was returned, that chunk was not.
C37_ChunkWithoutEmbeddingLeftOut ==
    /\ call.op = "search" /\ ~call.threw /\ search.results # <<>>
    /\ \E c \in Values(vectorStore.chunks) :
            /\ \A e \in Values(vectorStore.embeddings) : e.articleChunkId # c.id
            /\ \A i \in 1..Len(search.results) : search.results[i].chunk # c

--------------------------------------------------------------------------
(* Claims about the last windows of splitText. *)

\* The end of the k-th emitted chunk within the text: slice stops at its end.
EndInText(k) == Min({chunks[k][2], content.len})

(* C36: splitText emits no chunk whose character range lies entirely within
   the range of the chunk emitted just before it: after a window reached the
   end of the text no further chunk is produced. *)
C36_NoChunkInsidePrevious ==
    ValidOptions(options) =>
        \A k \in 2..Len(chunks) :
            ~(chunks[k - 1][1] <= chunks[k][1] /\ EndInText(k) <= EndInText(k - 1))

--------------------------------------------------------------------------
(* Claims about repeated reindex runs. *)

\* What needsReindexing answers, after the last call, for the documents that
\* call had fetched.
DiffAgain == needsReindexing(vectorStore, isLoaded, call.args.fetched)

\* The chunking of article a failed in the last run, or it gave chunks and
\* none of them has an embedding among those the run returned.
FailedInRun(a) ==
    \/ chunkArticle(a, StoreOptions).error # "none"
    \/ LET made == {c.id : c \in Range(chunkArticle(a, StoreOptions).chunks)}
       IN  /\ made # {}
           /\ \A e \in Range(call.args.embeddings) : e.articleChunkId \notin made

(* C33: an article whose chunking failed, or whose embeddings all failed, in
   a reindex run is reported as new or updated by needsReindexing in the next
   run over the same fetched documents. *)
C33_FailedArticleReportedAgain ==
    (call.op = "upsertData" /\ ~call.threw) =>
        \A a \in Range(call.args.articles) :
            FailedInRun(a) =>
                a \in Range(DiffAgain.newArticles) \cup Range(DiffAgain.updatedArticles)

(* C34: every stored embedding whose articleChunkId names a stored chunk was
   computed from the content stored under that chunk id. *)
C34_VectorOfStoredContent ==
    \A e \in Values(vectorStore.embeddings) :
        e.articleChunkId \in DOMAIN vectorStore.chunks =>
            e.vector = embedText(vectorStore.chunks[e.articleChunkId].content)

(* C35: after a reindex run over the fetched documents has completed
   (upsertData returned), needsReindexing of the same documents answers
   needsReindex = false, also when the store holds articles absent from them. *)
C35_ReindexConverges ==
    (call.op = "upsertData" /\ ~call.threw) => ~DiffAgain.needsReindex

--------------------------------------------------------------------------
(* Claims about the iteration cap of splitText. *)

(* C32: splitText raises the overflow error exactly when its loop stopped with
   text left unconsumed (start < text length): a split that consumed the whole
   text, on the cap-th iteration included, returns its chunks, and a split
   stopped by the cap returns no chunk list. *)
C32_OverflowExactlyWhenTextLeft ==
    (iterations > 0 /\ cpc \in {"done", "failed"}) =>
        /\ (cpc = "failed" /\ error = "ChunkingOverflow") <=> start < content.len
        /\ cpc = "failed" => result = <<>>

--------------------------------------------------------------------------
(* Claims about the store. *)

ChunksOfArticle(store, id) == {c \in Values(store.chunks) : c.articleId = id}

\* What a fresh process would load from the store file.
Persisted == load(file, TRUE)

(* C1: after any sequence of reindex runs and removeArticles calls, the chunks
   stored for an article id have one common totalChunks value n and their
   indices are exactly 0..n-1, also after the article was re-indexed with a
   body that yields fewer chunks. *)
C1_ChunkIndicesContiguous ==
    \A id \in ArticleIds :
        ChunksOfArticle(vectorStore, id) # {} =>
            \E n \in 1..Cardinality(ChunksOfArticle(vectorStore, id)) :
                /\ \A c \in ChunksOfArticle(vectorStore, id) : c.totalChunks = n
                /\ {c.chunkIndex : c \in ChunksOfArticle(vectorStore, id)} = 0..(n - 1)

(* C2: whenever upsertData, removeArticles or clear has handed control back,
   by returning or by throwing, the articles, chunks and embeddings in memory
   equal those of the store file, an absent file counting as the empty store. *)
C2_MemoryEqualsFile ==
    call.op \in {"upsertData", "removeArticles", "clear"} =>
        /\ vectorStore.articles = Persisted.articles
        /\ vectorStore.chunks = Persisted.chunks
        /\ vectorStore.embeddings = Persisted.embeddings

(* C3: no result that search returns has a raw cosine similarity to the query
   below options.minSimilarity, with boostRecent enabled or disabled. *)
C3_ResultsMeetRawThreshold ==
    (call.op = "search" /\ ~call.threw) =>
        \A i \in 1..Len(search.results) :
            cosineSimilarity(search.query, search.results[i].embedding.vector)
                >= search.options.minSimilarity

\* A boosted search returned results and left out an embedding whose boosted
\* score reaches the threshold while its raw similarity does not.
C3_BoostedScoreAloneWouldPass ==
    /\ call.op = "search" /\ ~call.threw
    /\ search.options.boostRecent /\ Len(search.results) > 0
    /\ \E r \in candidates(vectorStore, search.query, search.options, search.now) :
            /\ r.similarity < search.options.minSimilarity
            /\ r.score >= search.options.minSimilarity * ScoreUnit
            /\ \A i \in 1..Len(search.results) : search.results[i].embedding.id # r.embedding.id

\* The stored embeddings that search may return for the query: raw similarity
\* at or above the threshold and the chunk present.
Eligible(store, query, opts) ==
    {e \in Values(store.embeddings) :
        /\ cosineSimilarity(query, e.vector) >= opts.minSimilarity
        /\ e.articleChunkId \in DOMAIN store.chunks}

(* C11: search returns eligible results only, each once, ordered by
   non-increasing score and cut to maxResults: their number is the smaller of
   maxResults and the number of eligible embeddings, and no eligible embedding
   left out has a score strictly greater than a returned one. *)
C11_ResultsRankedAndCut ==
    (call.op = "search" /\ ~call.threw) =>
        LET rs == search.results
            eligible == Eligible(vectorStore, search.query, search.options)
            returned == {rs[i].embedding : i \in 1..Len(rs)}
        IN  /\ returned \subseteq eligible
            /\ Cardinality(returned) = Len(rs)
            /\ Len(rs) = Min({search.options.maxResults, Cardinality(eligible)})
            /\ \A i \in 1..Len(rs) :
                    rs[i] = scored(vectorStore, rs[i].embedding, search.query,
                                   search.options, search.now)
            /\ \A i, j \in 1..Len(rs) : i < j => rs[i].score >= rs[j].score
            /\ \A e \in eligible \ returned : \A i \in 1..Len(rs) :
                    scored(vectorStore, e, search.query, search.options, search.now).score
                        <= rs[i].score

\* A boosted search cut its results to maxResults, and the best one is not the
\* first eligible embedding in iteration order.
C11_CutAndReordered ==
    /\ call.op = "search" /\ ~call.threw /\ search.options.boostRecent
    /\ Len(search.results) = search.options.maxResults
    /\ Cardinality(Eligible(vectorStore, search.query, search.options)) > Len(search.results)
    /\ \E e \in Eligible(vectorStore, search.query, search.options) :
            /\ e.id # search.results[1].embedding.id
            /\ Before(e.id, search.results[1].embedding.id)

(* C12: search fails with the dimension-mismatch error and returns no result
   whenever the length of the query differs from the length of a stored
   embedding's vector. *)
C12_MismatchFails ==
    (call.op = "search"
        /\ \E e \in Values(vectorStore.embeddings) : Len(e.vector) # Len(search.query)) =>
        call.threw /\ search.results = <<>>

\* A search with a query of another length than the stored vectors has thrown.
C12_MismatchingQueryThrew ==
    /\ call.op = "search" /\ call.threw
    /\ vectorStore.embeddings # NoEntries
    /\ \A e \in Values(vectorStore.embeddings) : Len(e.vector) # Len(search.query)

\* The age in days, at the time of the last search, of the article of result r.
AgeOf(r) == getArticleAgeInDays(r.chunk.updatedAt, search.now)

(* C29: with boostRecent, the score of every returned result is at least its
   raw similarity: the boost factor is never below 1, and the score is the
   similarity times that factor. *)
C29_BoostNeverLowers ==
    (call.op = "search" /\ ~call.threw /\ search.options.boostRecent) =>
        \A i \in 1..Len(search.results) :
            LET r == search.results[i]
            IN  /\ boostFactor(search.options, AgeOf(r)) >= ScoreUnit
                /\ r.score = r.similarity * boostFactor(search.options, AgeOf(r))
                /\ r.score >= r.similarity * ScoreUnit

\* A boosted search returned a result of an article older than the boost
\* reaches (recentBoostFactor - age / 365 is below 1): its score is its
\* similarity, unchanged.
C29_FloorKeepsOldScore ==
    /\ call.op = "search" /\ ~call.threw /\ search.options.boostRecent
    /\ \E i \in 1..Len(search.results) :
            /\ search.results[i].similarity > 0
            /\ AgeOf(search.results[i]) * 100 > DaysPerYear * (search.options.recentBoostPct - 100)
            /\ search.results[i].score = search.results[i].similarity * ScoreUnit

\* The article an embedding of the store belongs to (0: its chunk is missing).
ArticleOfEmbedding(store, e) ==
    IF e.articleChunkId \in DOMAIN store.chunks
    THEN store.chunks[e.articleChunkId].articleId
    ELSE 0

\* Every entry of map before whose key is in keys is in map after, unchanged.
Kept(before, after, keys) ==
    \A k \in keys : k \in DOMAIN after /\ after[k] = before[k]

(* C13: after removeArticles(ids) returned, the store holds no article whose
   id is in ids, no chunk whose articleId is in ids and no embedding of such a
   chunk; nothing was added, and every article, chunk and embedding of an id
   not in ids is unchanged. *)
C13_RemoveCascades ==
    [][(call'.op = "removeArticles" /\ ~call'.threw) =>
        LET ids == call'.args.articleIds
            pre == Loaded(TRUE)
            post == vectorStore'
        IN  /\ DOMAIN post.articles \cap ids = {}
            /\ \A c \in Values(post.chunks) : c.articleId \notin ids
            /\ \A e \in Values(post.embeddings) :
                    \A c \in Values(pre.chunks) :
                        c.articleId \in ids => e.articleChunkId # c.id
            /\ DOMAIN post.articles \subseteq DOMAIN pre.articles
            /\ DOMAIN post.chunks \subseteq DOMAIN pre.chunks
            /\ DOMAIN post.embeddings \subseteq DOMAIN pre.embeddings
            /\ Kept(pre.articles, post.articles, DOMAIN pre.articles \ ids)
            /\ Kept(pre.chunks, post.chunks,
                    {k \in DOMAIN pre.chunks : pre.chunks[k].articleId \notin ids})
            /\ Kept(pre.embeddings, post.embeddings,
                    {k \in DOMAIN pre.embeddings :
                        ArticleOfEmbedding(pre, pre.embeddings[k]) \notin ids})]_vars

\* removeArticles([1]) returned and left article 2 with chunks and embeddings.
C13_RemovedOneKeptOther ==
    /\ call.op = "removeArticles" /\ ~call.threw /\ call.args.articleIds = {1}
    /\ DOMAIN vectorStore.articles = {2}
    /\ vectorStore.chunks # NoEntries /\ vectorStore.embeddings # NoEntries

\* The identifiers of the entries of a list, and the last entry of the list
\* that carries the identifier id.
IdsOf(list) == {list[i].id : i \in 1..Len(list)}

LastOf(list, id) == list[Max({i \in 1..Len(list) : list[i].id = id})]

\* After the entries of list were upserted into map before: every identifier
\* supplied maps to the last entry supplied for it, the others are unchanged.
Upserted(before, after, list) ==
    /\ DOMAIN after = DOMAIN before \cup IdsOf(list)
    /\ \A id \in IdsOf(list) : after[id] = LastOf(list, id)
    /\ Kept(before, after, DOMAIN before \ IdsOf(list))

(* C14: after upsertData(articles, chunks, embeddings, ...) returned, each
   supplied identifier maps to the last supplied entry carrying it, and every
   stored article, chunk and embedding whose identifier was not supplied is
   unchanged. *)
C14_UpsertLastWriteWins ==
    [][(call'.op = "upsertData" /\ ~call'.threw) =>
        /\ Upserted(Loaded(TRUE).articles, vectorStore'.articles, call'.args.articles)
        /\ Upserted(Loaded(TRUE).chunks, vectorStore'.chunks, call'.args.chunks)
        /\ Upserted(Loaded(TRUE).embeddings, vectorStore'.embeddings,
                    call'.args.embeddings)]_vars

\* upsertData returned after it was handed two different chunks under one
\* identifier, on a store that holds entries it was not handed.
C14_DuplicateIdSupplied ==
    /\ call.op = "upsertData" /\ ~call.threw
    /\ \E i, j \in 1..Len(call.args.chunks) :
            /\ i < j
            /\ call.args.chunks[i].id = call.args.chunks[j].id
            /\ call.args.chunks[i] # call.args.chunks[j]
    /\ DOMAIN vectorStore.articles \ IdsOf(call.args.articles) # {}

(* C15: after upsertData returned, a fresh instance that loads the same file
   holds the same articles, chunks and embeddings and the same model name,
   chunk size and chunk overlap as the saving instance. *)
C15_SaveLoadRoundTrip ==
    (call.op = "upsertData" /\ ~call.threw) =>
        /\ load(file, TRUE).articles = vectorStore.articles
        /\ load(file, TRUE).chunks = vectorStore.chunks
        /\ load(file, TRUE).embeddings = vectorStore.embeddings
        /\ load(file, TRUE).metadata.embeddingModel = vectorStore.metadata.embeddingModel
        /\ load(file, TRUE).metadata.chunkSize = vectorStore.metadata.chunkSize
        /\ load(file, TRUE).metadata.chunkOverlap = vectorStore.metadata.chunkOverlap

\* upsertData returned on a store that holds articles, chunks and embeddings
\* and the provenance the reindex run passed.
C15_SavedNonEmptyStore ==
    /\ call.op = "upsertData" /\ ~call.threw /\ file.state = "json"
    /\ vectorStore.articles # NoEntries /\ vectorStore.chunks # NoEntries
    /\ vectorStore.embeddings # NoEntries
    /\ vectorStore.metadata.embeddingModel = EmbeddingModel
    /\ vectorStore.metadata.chunkSize = StoreOptions.size

\* The answer diff of needsReindexing on the documents D against the stored
\* articles.
Characterised(stored, D, diff) ==
    /\ Range(diff.newArticles) = {d \in Range(D) : d.id \notin DOMAIN stored}
    /\ Range(diff.updatedArticles) =
           {d \in Range(D) : d.id \in DOMAIN stored /\ d.updated_at > stored[d.id].updated_at}
    /\ diff.deletedArticleIds = DOMAIN stored \ IdsOf(D)
    /\ diff.needsReindex <=>
           \/ diff.newArticles # <<>>
           \/ diff.updatedArticles # <<>>
           \/ diff.deletedArticleIds # {}
    /\ IdsOf(diff.newArticles) \cap IdsOf(diff.updatedArticles) = {}
    /\ IdsOf(diff.newArticles) \cap diff.deletedArticleIds = {}
    /\ IdsOf(diff.updatedArticles) \cap diff.deletedArticleIds = {}
    /\ \A d \in Range(D) :
           d.id \in DOMAIN stored /\ d.updated_at <= stored[d.id].updated_at =>
               d \notin Range(diff.newArticles) \cup Range(diff.updatedArticles)

(* C16: on a Loaded store needsReindexing(D) returns as new the documents
   whose id is not stored, as updated the stored ones with a strictly newer
   updated_at, as deleted the stored ids absent from D; needsReindex is true
   exactly when one of the three is non-empty; the three id sets are pairwise
   disjoint and a document of equal or older updated_at is in none. *)
C16_NeedsReindexingCharacterised ==
    [][isLoaded /\ call'.op \in {"needsReindexing", "upsertData"} =>
           Characterised(vectorStore.articles, call'.args.fetched, call'.diff)]_vars

\* A comparison that found an updated article and a deleted one and that met
\* a stored article again with an equal updated_at (article 1 fetched in two
\* versions).
C16_UpdatedAndDeleted ==
    /\ call.op = "upsertData" /\ ~call.threw
    /\ call.diff.updatedArticles # <<>>
    /\ call.diff.deletedArticleIds # {}
    /\ call.diff.newArticles = <<>>
    /\ Len(call.args.fetched) = 2

\* The documents D are the stored ones: same ids, same updated_at.
SameDocuments(stored, D) ==
    /\ IdsOf(D) = DOMAIN stored
    /\ \A d \in Range(D) : d.updated_at = stored[d.id].updated_at

(* C17: needsReindexing on a document set equal to the stored one returns
   needsReindex = false and empty new, updated and deleted lists. *)
C17_UnchangedSetNeedsNoReindex ==
    [][/\ isLoaded
       /\ call'.op \in {"needsReindexing", "upsertData"}
       /\ SameDocuments(vectorStore.articles, call'.args.fetched)
       => /\ call'.op = "needsReindexing"
          /\ ~call'.diff.needsReindex
          /\ call'.diff.newArticles = <<>>
          /\ call'.diff.updatedArticles = <<>>
          /\ call'.diff.deletedArticleIds = {}]_vars

\* needsReindexing answered for the two stored articles, fetched unchanged.
C17_TwoStoredArticlesFetchedAgain ==
    /\ isLoaded /\ call.op = "needsReindexing"
    /\ Len(call.args.fetched) = 2
    /\ Cardinality(DOMAIN vectorStore.articles) = 2
    /\ SameDocuments(vectorStore.articles, call.args.fetched)

ReadPaths ==
    {"search", "needsReindexing", "getArticle", "getChunk", "getArticleChunks",
     "hasArticle", "getStats"}

(* C18: search, needsReindexing, getArticle, getChunk, getArticleChunks,
   hasArticle and getStats leave the articles, chunks, embeddings and metadata
   of a Loaded store as they were and do not write the store file. *)
C18_ReadPathsReadOnly ==
    [][isLoaded /\ call'.op \in ReadPaths =>
           vectorStore' = vectorStore /\ file' = file]_vars

\* getArticleChunks returned chunks: it throws on an unloaded store, so the
\* store it read was Loaded, and it holds what the file holds.
C18_ChunksReadFromLoadedStore ==
    /\ call.op = "getArticleChunks" /\ ~call.threw /\ call.value # {}
    /\ isLoaded /\ file.state = "json"
    /\ vectorStore = load(file, TRUE)

(* C19: load never fails: on an absent, unreadable or unparseable file it
   leaves an empty store, and the store is Loaded when it returns; once
   Loaded, no operation, a failed save included, makes the store Unloaded
   (only a new process starts Unloaded). *)
C19_LoadNeverFailsAndLoadedStays ==
    [][/\ call'.op = "load" =>
              /\ isLoaded' /\ ~call'.threw
              /\ file.state # "json" \/ faultsLeft' # faultsLeft =>
                     vectorStore' = createEmptyStore
              /\ file.state = "json" /\ faultsLeft' = faultsLeft =>
                     vectorStore' = parse(file)
       /\ isLoaded /\ call'.op # "constructor" => isLoaded']_vars

\* A save was cut short and left an unparseable file; the load of that file
\* returned and left an empty, Loaded store.
C19_LoadedFromUnparseableFile ==
    /\ call.op = "load" /\ ~call.threw /\ isLoaded
    /\ file.state = "corrupt"
    /\ vectorStore = createEmptyStore

Accessors == {"getArticle", "getChunk", "getArticleChunks", "hasArticle", "getStats"}

(* C20: each of getArticle, getChunk, getArticleChunks, hasArticle and
   getStats, called on a store on which load has not completed, fails with the
   not-loaded error and returns no value. *)
C20_AccessorsThrowWhenUnloaded ==
    (call.op \in Accessors /\ ~isLoaded) => (call.threw /\ call.value = {})

--------------------------------------------------------------------------
(* Claims about the ingestion. *)

IdSeq(list) == [i \in 1..Len(list) |-> list[i].id]

EmbeddedIdsOf(list) == [i \in 1..Len(list) |-> list[i].articleChunkId]

(* C21: at most one embedding per chunk id: processArticles returns no two
   embeddings with the same articleChunkId, and the store holds no two
   embeddings of one chunk. *)
C21_OneEmbeddingPerChunkId ==
    /\ ingest.pc = "done" => \A i, j \in 1..Len(ingest.embeddings) :
           i # j => ingest.embeddings[i].articleChunkId # ingest.embeddings[j].articleChunkId
    /\ \A x, y \in DOMAIN vectorStore.embeddings :
           x # y => vectorStore.embeddings[x].articleChunkId
                        # vectorStore.embeddings[y].articleChunkId

(* C22: processArticles does not throw, visits every input document exactly
   once in input order, and returns, whatever chunking errors and backend
   failures occur. *)
C22_RunNeverAborts ==
    ingest.pc = "done" =>
        /\ ~ingest.threw /\ ingest.returned
        /\ ingest.visited = IdSeq(ingest.articles)

\* A run over a document whose chunking failed, followed by a document of
\* which a batch call and a single call failed.
C22_FailuresAbsorbed ==
    /\ ingest.returned /\ Len(ingest.articles) = 2
    /\ ingest.articles[1].body.len = 0
    /\ \E k \in 1..Len(ingest.calls) : ingest.calls[k].kind = "single" /\ ~ingest.calls[k].ok

\* The chunk at position i of the chunks cs of one article got its embedding:
\* the batch call that held it succeeded, or its own single call did.
Succeeded(cs, i) ==
    \/ \A j \in 1..Len(cs) :
           (j - 1) \div BatchSize = (i - 1) \div BatchSize =>
               cs[j].id \notin ingest.failedBatches
    \/ cs[i].id \notin ingest.failedSingles

SucceededOf(cs) == {i \in 1..Len(cs) : Succeeded(cs, i)}

\* The subsequence of seq at the positions in keep.
RECURSIVE Pick(_, _, _)
Pick(seq, keep, i) ==
    IF i > Len(seq)
    THEN <<>>
    ELSE (IF i \in keep THEN <<seq[i]>> ELSE <<>>) \o Pick(seq, keep, i + 1)

ExpectedOf(cs) == [chunks |-> cs, embeddings |-> Pick(embeddingsOf(cs), SucceededOf(cs), 1)]

\* What the articles from position i on are to contribute.
RECURSIVE ExpectedChunks(_, _)
ExpectedChunks(articles, i) ==
    IF i > Len(articles)
    THEN <<>>
    ELSE chunksOf(articles[i], chunkArticle(articles[i], StoreOptions))
            \o ExpectedChunks(articles, i + 1)

RECURSIVE ExpectedEmbeddings(_, _)
ExpectedEmbeddings(articles, i) ==
    IF i > Len(articles)
    THEN <<>>
    ELSE ExpectedOf(chunksOf(articles[i], chunkArticle(articles[i], StoreOptions))).embeddings
            \o ExpectedEmbeddings(articles, i + 1)

(* C23: processArticles returns exactly the chunks of the documents whose
   chunking succeeded and exactly the embeddings of the chunks whose embedding
   call succeeded, in batch or singly; a chunk whose embedding failed stays
   among the chunks without an embedding. *)
C23_ExactlyWhatSucceeded ==
    ingest.pc = "done" =>
        /\ ingest.chunks = ExpectedChunks(ingest.articles, 1)
        /\ ingest.embeddings = ExpectedEmbeddings(ingest.articles, 1)

\* A run of two documents: the chunking of the first failed; of the second, one
\* chunk is returned without an embedding and the others with theirs.
C23_ChunkKeptWithoutEmbedding ==
    /\ ingest.pc = "done" /\ Len(ingest.articles) = 2
    /\ ingest.articles[1].body.len = 0
    /\ Len(ingest.chunks) = 6 /\ Len(ingest.embeddings) = 5
    /\ \E i \in 1..6 :
           \A k \in 1..5 : ingest.embeddings[k].articleChunkId # ingest.chunks[i].id

\* The chunk ids of the calls from position k on, for the calls that satisfy
\* both wanted kind and wanted outcome.
RECURSIVE IdsSent(_, _, _, _)
IdsSent(calls, k, kinds, oks) ==
    IF k > Len(calls)
    THEN <<>>
    ELSE (IF calls[k].kind \in kinds /\ calls[k].ok \in oks THEN calls[k].ids ELSE <<>>)
            \o IdsSent(calls, k + 1, kinds, oks)

(* C24: when the call for a batch fails, each chunk of that batch is embedded
   by its own single call, in order; a chunk whose single call fails is left
   out of the output; the other chunks of the batch and all later batches are
   still attempted. *)
C24_FailedBatchRetriedSingly ==
    ingest.pc = "done" =>
        /\ \A k \in 1..Len(ingest.calls) :
               ingest.calls[k].kind = "batch" /\ ~ingest.calls[k].ok =>
                   /\ k + Len(ingest.calls[k].ids) <= Len(ingest.calls)
                   /\ \A j \in 1..Len(ingest.calls[k].ids) :
                          /\ ingest.calls[k + j].kind = "single"
                          /\ ingest.calls[k + j].ids = <<ingest.calls[k].ids[j]>>
        /\ \A k \in 1..Len(ingest.calls) :
               ingest.calls[k].kind = "single" =>
                   \E b \in 1..(k - 1) :
                       /\ ingest.calls[b].kind = "batch" /\ ~ingest.calls[b].ok
                       /\ k - b <= Len(ingest.calls[b].ids)
        /\ IdsSent(ingest.calls, 1, {"batch"}, BOOLEAN) = IdSeq(ingest.chunks)
        /\ \A k \in 1..Len(ingest.calls) : Len(ingest.calls[k].ids) <= BatchSize
        /\ IdsSent(ingest.calls, 1, {"batch", "single"}, {TRUE})
               = EmbeddedIdsOf(ingest.embeddings)

\* The first batch of a document of six chunks failed, the single call of one
\* of its chunks failed, the single calls after it were made, and the second
\* batch was sent.
C24_SingleFailedLaterBatchSent ==
    /\ ingest.pc = "done" /\ Len(ingest.calls) = 7
    /\ ingest.calls[1].kind = "batch" /\ ~ingest.calls[1].ok
    /\ Len(ingest.calls[1].ids) = BatchSize
    /\ ~ingest.calls[3].ok /\ ingest.calls[4].ok /\ ingest.calls[6].ok
    /\ ingest.calls[7].kind = "batch" /\ ingest.calls[7].ok
    /\ Len(ingest.embeddings) = 5

(* C30: a document whose chunking runs longer than the 30-second bound is
   abandoned as if its chunking had failed: it contributes no chunks. *)
C30_SlowChunkingAbandoned ==
    ingest.pc = "done" =>
        \A i \in 1..Len(ingest.chunks) : ingest.chunks[i].articleId \notin ingest.slow

--------------------------------------------------------------------------
(* Claims about the backend calls. *)

ClientError(response) ==
    response.kind = "http" /\ response.status >= 400 /\ response.status < 500
        /\ response.status # 429

Retryable(response) == response.kind # "ok" /\ ~ClientError(response)

(* C25: a backend call that fails with a 4xx status other than 429 is never
   retried: retryRequest invokes the operation once and raises its error, in
   each of the three clients. *)
C25_ClientErrorNotRetried ==
    (retry.pc = "done" /\ retry.op = "retryRequest") =>
        \A k \in 1..retry.attempts :
            ClientError(retry.responses[k]) =>
                /\ k = retry.attempts
                /\ retry.raised = {parseError(thrown(retry.client, retry.responses[k]))}

(* C26: a call that keeps failing with a retryable error is attempted exactly
   4 times, with a sleep of min(baseDelay * 2^attempt, maxDelay) between
   consecutive attempts and none after the last, and then raises the error of
   the last attempt; a call that succeeds is not attempted again. *)
C26_RetriedFourTimesWithBackoff ==
    (retry.pc = "done" /\ retry.op = "retryRequest") =>
        /\ (\A k \in 1..4 : Retryable(retry.responses[k])) =>
               /\ retry.attempts = 4
               /\ ~retry.returned
               /\ retry.raised = {parseError(thrown(retry.client, retry.responses[4]))}
        /\ Len(retry.sleeps) = retry.attempts - 1
        /\ \A i \in 1..Len(retry.sleeps) :
               retry.sleeps[i] =
                   Min({retryOptions(retry.client).baseDelay * 2 ^ (i - 1),
                        retryOptions(retry.client).maxDelay})
        /\ retry.returned =>
               /\ retry.responses[retry.attempts].kind = "ok"
               /\ \A k \in 1..(retry.attempts - 1) : retry.responses[k].kind # "ok"
        /\ (\E k \in 1..4 : retry.responses[k].kind = "ok"
                              /\ \A j \in 1..(k - 1) : Retryable(retry.responses[j]))
               => retry.returned

\* A 500, a 429, a timeout and a network failure in a row: four attempts, the
\* sleeps 1000, 2000 and 4000 ms, and the network failure raised.
C26_FourAttemptsThenRaised ==
    /\ retry.pc = "done" /\ retry.op = "retryRequest" /\ retry.client = "embedding"
    /\ retry.responses[1] = Http(500) /\ retry.responses[2] = Http(429)
    /\ retry.responses[3] = TimedOut /\ retry.responses[4] = NetworkFailure
    /\ retry.responses[5] = Ok
    /\ retry.attempts = 4 /\ retry.sleeps = <<1000, 2000, 4000>>
    /\ retry.raised = {parseError(thrown("embedding", NetworkFailure))}

(* C27: looking up a document that the source reports as not found (404)
   returns null and raises nothing. *)
C27_NotFoundIsNull ==
    (retry.pc = "done" /\ retry.op = "fetchArticle"
        /\ retry.responses[retry.attempts] = Http(404)) =>
        retry.returned /\ retry.value = {"null"} /\ retry.raised = {}

(* C31: every single pacing sleep of a rate limiter is at most 15 seconds, in
   each of the three clients, whatever requests and tokens are recorded. *)
C31_SleepsCapped ==
    limiter.op = "enforceRateLimit" =>
        \A i \in 1..Len(limiter.slept) : limiter.slept[i] <= TokenWaitCap

\* The requests recorded in state that are within the window at time now.
InWindow(state, now) == {i \in 1..Len(state.requests) : state.requests[i] > now - Window}

(* C28: enforceRateLimit never rejects or fails a request: every call records
   the request and returns; a request issued while 100 requests are recorded
   within the last 60 seconds is delayed by a pacing sleep first. *)
C28_PacedNeverRejected ==
    [][limiter'.op = "enforceRateLimit" /\ limiter' # limiter =>
           /\ limiter'.returned /\ ~limiter'.threw
           /\ Len(limiter'.requests) = Cardinality(InWindow(limiter, limiter'.now)) + 1
           /\ limiter'.requests[Len(limiter'.requests)] = limiter'.now
           /\ Cardinality(InWindow(limiter, limiter'.now)) >= RequestLimit =>
                  /\ limiter'.slept # <<>>
                  /\ limiter'.slept[1] > 0 /\ limiter'.slept[1] <= RequestWaitCap
                  /\ limiter'.clock >= limiter'.now + limiter'.slept[1]]_vars

\* The 101st request within the window: it slept 10 seconds and is recorded.
C28_HundredAndFirstDelayed ==
    /\ limiter.op = "enforceRateLimit" /\ limiter.asked = 1 /\ limiter.returned
    /\ Len(limiter.requests) = RequestLimit + 1
    /\ limiter.slept = <<RequestWaitCap>>
    /\ limiter.clock = limiter.now + RequestWaitCap

--------------------------------------------------------------------------
(* Claims about the chunker. *)

ForcedStep(opts) == IF opts.size \div 2 > 1 THEN opts.size \div 2 ELSE 1

\* c is b without its leading and trailing whitespace, said without Trim.
IsTrimmedBody(c, b) ==
    \E lead \in 0..b.len, trail \in 0..b.len :
        /\ lead + trail <= b.len
        /\ \A i \in 0..(lead - 1) : IsSpaceAt(b, i)
        /\ \A i \in (b.len - trail)..(b.len - 1) : IsSpaceAt(b, i)
        /\ c = Slice(b, lead, b.len - trail)
        /\ c.len = 0 \/ (~IsSpaceAt(c, 0) /\ ~IsSpaceAt(c, c.len - 1))

(* C4: for a body longer than size under a valid configuration, every
   non-whitespace character of the body lies inside the character range of at
   least one chunk that splitText emitted. *)
C4_WindowsCoverText ==
    (cpc = "done" /\ content.len > options.size /\ ValidOptions(options)) =>
        \A i \in 0..(content.len - 1) :
            ~IsSpaceAt(content, i) =>
                \E k \in 1..Len(chunks) : chunks[k][1] <= i /\ i < chunks[k][2]

(* C5: every chunk that chunking returns under a valid configuration is at
   most size characters long. *)
C5_ChunkWithinSize ==
    (cpc = "done" /\ ValidOptions(options)) =>
        \A k \in 1..Len(result) : result[k].content.len <= options.size

(* C6: chunking the empty body under a valid configuration returns exactly one
   chunk, with empty content, chunkIndex 0 and totalChunks 1; it does not fail. *)
C6_EmptyBodyOneEmptyChunk ==
    (body.len = 0 /\ ValidOptions(options) /\ cpc # "call") =>
        /\ cpc = "done"
        /\ result = <<[content |-> EmptyText, chunkIndex |-> 0, totalChunks |-> 1]>>

(* C7: chunking under a configuration with size <= 0 or overlap outside
   [0, size) fails with an invalid-configuration error, whatever the length of
   the body (stated here for the non-empty bodies). *)
C7_InvalidOptionsRejected ==
    (body.len > 0 /\ ~ValidOptions(options) /\ cpc # "call") =>
        cpc = "failed" /\ error \in {"InvalidChunkSize", "InvalidOverlap"}

(* C8: on every iteration of the splitText loop start strictly increases: by
   end - overlap - start when that is positive, and otherwise by the forced
   step max(1, floor(size / 2)); so the loop ends within Len(text) iterations. *)
C8_StartStrictlyIncreases ==
    [][SplitIterate =>
        /\ start' > start
        /\ start' - start = IF end' - options.overlap - start > 0
                            THEN end' - options.overlap - start
                            ELSE ForcedStep(options)
        /\ iterations' <= start'
        /\ iterations' <= content.len]_vars

\* The last iteration took the forced step, after an ordinary one.
C8_ForcedStepTaken ==
    /\ cpc = "split" /\ iterations >= 2
    /\ end - options.overlap <= start - ForcedStep(options)

(* C9: a non-empty body of at most size characters yields exactly one chunk,
   chunkIndex 0 of totalChunks 1, whose content is the body without its leading
   and trailing whitespace. *)
C9_SmallBodySingleTrimmedChunk ==
    (body.len > 0 /\ body.len <= options.size /\ cpc # "call") =>
        /\ cpc = "done"
        /\ Len(result) = 1
        /\ result[1].chunkIndex = 0 /\ result[1].totalChunks = 1
        /\ IsTrimmedBody(result[1].content, body)

C9_SmallBodyWasTrimmed ==
    /\ cpc = "done" /\ body.len <= options.size /\ Len(result) = 1
    /\ IsSpaceAt(body, 0) /\ result[1].content.len > 0
    /\ result[1].content.len < body.len

(* C10: a body of 2500 characters under size 1000, overlap 200 and
   preserveWords alone yields exactly 3 chunks. *)
C10_ScenarioYieldsThreeChunks ==
    cpc \in {"done", "failed"} => (cpc = "done" /\ Len(result) = 3)

=============================================================================
